---- MODULE Spec2Model ----
(***************************************************************************)
(* vite-static-renderer: the route-rendering pipeline.                     *)
(*                                                                         *)
(* StaticGenerator.generate() resolves the route set, cleans the output    *)
(* directory, starts the static server, launches the browser, renders the  *)
(* routes batch by batch (renderRoutes, with BrowserRenderer.render and    *)
(* the retry loop per route), copies assets, writes the SEO files and      *)
(* tears browser and server down in nested finally blocks.                 *)
(*                                                                         *)
(* One action is one continuation of the asynchronous code: it starts      *)
(* where an awaited operation settles and runs to the next await.          *)
(***************************************************************************)
EXTENDS Integers, Sequences, FiniteSets, TLC

(***************************************************************************)
(* Bounds of the model.                                                    *)
(***************************************************************************)
\* generate() runs: route lists of up to MaxRoutes routes
MaxRoutes == 3
\* generate() runs: config.parallel ranges over 1..MaxParallel
MaxParallel == 2
\* generate() runs: config.retries ranges over 0..MaxRetries
MaxRetries == 2
\* resolveRoutes alone: routes are drawn from 1..NumRoutes
NumRoutes == 2
\* resolveRoutes alone: longest static list / routes() result
MaxSrcLen == 2
\* resolveRoutes alone: longest generator result
MaxGenLen == 1
\* resolveRoutes alone: most dynamicRoutes entries
MaxGens == 2

\* how many calls are made on an object that is checked on its own
MaxCalls == 5

\* the largest number of segments in the pathname of a request
MaxDepth == 2

\* the largest exit code of the build command
MaxExitCode == 2

(***************************************************************************)
(* Helpers.                                                                *)
(***************************************************************************)
Min(a, b) == IF a < b THEN a ELSE b

Max(a, b) == IF a < b THEN b ELSE a

Range(s) == {s[k] : k \in 1..Len(s)}

Iota(n) == [k \in 1..n |-> k]

SeqsUpTo(S, n) == UNION {[1..m -> S] : m \in 0..n}

\* what calling a user callback does: it returns a list of routes or throws
Returns(list) == [throws |-> FALSE, value |-> list]

Throws == [throws |-> TRUE, value |-> <<>>]

(***************************************************************************)
(* State.                                                                  *)
(***************************************************************************)
VARIABLES
    config,      \* this.config: routes, dynamicRoutes, parallel, retries and the options
    locked,      \* the paths under outputDir that rm cannot remove (e.g. EACCES, EBUSY)
    rootDir,     \* StaticServer: the files and directories under rootDir
    request,     \* StaticServer: the pathname of the request being handled
    response,    \* StaticServer: the response to it
    cli,         \* the generate command of the CLI: where it is, build and exit status
    trace,       \* the outcomes of the calls made on an object on its own, in order
    pc,          \* where generate() is
    routeSet,    \* resolveRoutes: the local Set `routes`, in insertion order
    genIdx,      \* resolveRoutes: how many dynamicRoutes entries were consumed
    invoked,     \* resolveRoutes: the callbacks invoked so far (0: routes(), k: generator k)
    routes,      \* generate: the resolved route list
    outputDir,   \* whether outputDir exists: "absent", "present"
    server,      \* the static server: "none", "listening", "closed"
    launched,    \* how many browsers chromium.launch has launched
    teardowns,   \* how often each launched browser was closed
    browser,     \* renderer.browser: "none" (undefined), "open", "closed"
    pages,       \* the pages of the browser that are open, by route index
    batch,       \* renderRoutes: the loop index i
    tpc,         \* renderRoutes: where the task of each route is
    attempts,    \* renderRoutes: the local `attempts` of each route's task
    result,      \* renderRoutes: the local `result` of each route's task
    calls,       \* how often renderer.render was invoked for each route
    succAt,      \* the call of each route that first succeeded (0: none yet)
    writes,      \* how often the HTML file of each route was written
    steps,       \* the steps of its try block the current render call of each route has run
    afterRenderArg, \* the html the current render call of each route passed to afterRender
    onErrorCalls,\* how often the current render call of each route invoked config.onError
    onErrorArg,  \* the arguments the current render call of each route gave config.onError
    overtaken,   \* whether a task has returned before the task of an earlier route of its batch
    files,       \* the HTML files under outputDir: output path -> content
    stats,       \* the RenderStats generate() computed for its return
    assets,      \* copyAssets: "none" (not run), "copied", "failed" (error caught)
    sitemap,     \* the lines of outputDir/sitemap.xml (NoFile: no such file)
    robots,      \* the lines of outputDir/robots.txt (NoFile: no such file)
    results,     \* renderRoutes: the list `results`
    exc,         \* the exception generate() is unwinding with ("none": none)
    outcome      \* how generate() settled: "pending", "returned", "threw"

\* what no step of generate() changes
envVars == <<config, locked, rootDir, request, response, cli, trace>>

browserVars == <<launched, teardowns>>

seoVars == <<assets, sitemap, robots>>

resolveVars == <<routeSet, genIdx, invoked, routes>>

resourceVars == <<server, browser, pages>>

taskVars == <<tpc, attempts, result, calls, succAt, writes, steps, onErrorCalls, onErrorArg,
              afterRenderArg>>

outVars == <<overtaken, files, stats>>

vars == <<config, locked, rootDir, request, response, cli, trace, pc, routeSet,
          genIdx, invoked, routes, outputDir, server, browser, pages, launched, teardowns, batch, tpc,
          attempts, result, calls, succAt, writes, steps, onErrorCalls, onErrorArg,
          afterRenderArg,
          overtaken, files, stats, assets, sitemap, robots, results, exc, outcome>>

(***************************************************************************)
(* Configurations.                                                         *)
(***************************************************************************)
\* a sitemap.hostname
HostName == "https://example.com"

\* config.sitemap when the key is not set (undefined)
NoSitemap == [set |-> FALSE, hostname |-> "", exclude |-> <<>>]

\* config.robots when the key is not set (undefined)
NoRobots == [set |-> FALSE, policy |-> <<>>]

\* config.routes is an array, or a function that returns an array or throws
RoutesSources(lists) ==
    {[kind |-> "array", throws |-> FALSE, value |-> l] : l \in lists}
        \cup {[kind |-> "function", throws |-> FALSE, value |-> l] : l \in lists}
        \cup {[kind |-> "function", throws |-> TRUE, value |-> <<>>]}

\* the configurations resolveRoutes is checked on by itself
ResolveConfigs ==
    [routes : RoutesSources(SeqsUpTo(1..NumRoutes, MaxSrcLen)),
     dynamicRoutes : SeqsUpTo({Throws} \cup {Returns(l) : l \in SeqsUpTo(1..NumRoutes, MaxGenLen)},
                              MaxGens),
     parallel : {1},
     retries : {1}]

\* the configurations whole generate() runs are checked on: a static list of 0 to
\* MaxRoutes routes, or a routes function, with or without a dynamic route generator
\* (one that throws, or one whose result repeats a static route and adds another) and
\* with a sitemap and a robots.txt configured;
\* the static lists run with every parallel and retries but the largest of both at
\* once, and the longest list with the largest retries only one route at a time
RunConfigs ==
    {c \in [routes : {[kind |-> "array", throws |-> FALSE, value |-> Iota(n)] :
                        n \in 0..MaxRoutes},
            dynamicRoutes : {<<>>},
            parallel : 1..MaxParallel,
            retries : 0..MaxRetries] :
            (c.parallel < MaxParallel \/ c.retries < MaxRetries)
                /\ (Len(c.routes.value) < MaxRoutes \/ c.retries < MaxRetries \/ c.parallel = 1)}
    \cup
    [routes : {[kind |-> "array", throws |-> FALSE, value |-> Iota(1)],
               [kind |-> "function", throws |-> FALSE, value |-> Iota(1)],
               [kind |-> "function", throws |-> TRUE, value |-> <<>>]},
     dynamicRoutes : {<<Throws>>, <<Returns(Iota(2))>>},
     parallel : 1..MaxParallel,
     retries : 0..MaxRetries,
     sitemap : {[set |-> TRUE, hostname |-> HostName, exclude |-> <<>>]},
     robots : {[set |-> TRUE, policy |-> <<>>]}]

\* the options of DEFAULT_CONFIG: nested naming, a customNaming function that names as
\* the nested scheme does, an afterRender that returns the html it is given, and the
\* build not skipped, no selector to wait for, no minification and no meta tags;
\* DEFAULT_CONFIG has no sitemap and no robots key. injectMeta is held as the list of
\* the tags its entries are rendered as
DEFAULT_CONFIG ==
    [fileNaming |-> "nested", customNaming |-> "default", afterRender |-> "default",
     skipBuild |-> FALSE, sitemap |-> NoSitemap, robots |-> NoRobots,
     selector |-> "undefined", minifyHtml |-> FALSE, injectMeta |-> <<>>]

\* {...DEFAULT_CONFIG, ...userConfig}: a key the user's configuration has wins, even
\* when its value is undefined
mergeConfig(userConfig) == userConfig @@ DEFAULT_CONFIG

\* what outputDir holds before a run: a file of an earlier run
StaleOutput == (<<"old", ".html">> :> <<"old">>)

\* a file that does not exist, as the lines of its content
NoFile == <<<<"ENOENT">>>>

\* the variables of the static server, the CLI and the calls made on an object on its
\* own, when none of them is exercised
Idle ==
    /\ rootDir = {}
    /\ request = <<>>
    /\ response = [status |-> 0, body |-> <<>>]
    /\ cli = [pc |-> "none", built |-> FALSE, code |-> 0, exit |-> 0]
    /\ trace = <<>>

\* no RenderStats computed yet
NoStats == [total |-> 0, success |-> 0, failed |-> 0]

\* a StaticGenerator whose generate() is at the given position, nothing done yet, and
\* the output directory it finds
InitRunIn(position, dir, dirFiles) ==
    /\ pc = position
    /\ routeSet = <<>>
    /\ genIdx = 0
    /\ invoked = <<>>
    /\ routes = <<>>
    /\ outputDir = dir
    /\ server = "none"
    /\ browser = "none"
    /\ launched = 0
    /\ teardowns = <<>>
    /\ assets = "none"
    /\ sitemap = NoFile
    /\ robots = NoFile
    /\ pages = {}
    /\ batch = 0
    /\ tpc = <<>>
    /\ attempts = <<>>
    /\ result = <<>>
    /\ calls = <<>>
    /\ succAt = <<>>
    /\ writes = <<>>
    /\ steps = <<>>
    /\ afterRenderArg = <<>>
    /\ onErrorCalls = <<>>
    /\ onErrorArg = <<>>
    /\ overtaken = FALSE
    /\ files = dirFiles
    /\ stats = NoStats
    /\ results = <<>>
    /\ exc = "none"
    /\ outcome = "pending"

\* the same, with what an earlier run left in the output directory
InitRunAt(position) == InitRunIn(position, "present", StaleOutput)

\* generate() has just been called
InitRun == InitRunAt("resolveRoutes")

Init ==
    /\ config \in {mergeConfig(userConfig) : userConfig \in RunConfigs}
    /\ locked = {}
    /\ Idle
    /\ InitRun

\* the configurations the rendering options are checked on: "/" and one more route, the
\* tasks of both in one batch, and each of fileNaming, customNaming and afterRender left
\* out or set by the user (customNaming also set to undefined)
OptionConfigs ==
    {base @@ naming @@ custom @@ hook :
        base \in [routes : {[kind |-> "array", throws |-> FALSE, value |-> Iota(1)]},
                  dynamicRoutes : {<<Returns(<<k>>)>> : k \in 2..MaxRoutes},
                  parallel : {MaxParallel},
                  retries : {MaxRetries}],
        naming \in {<<>>, [fileNaming |-> "flat"], [fileNaming |-> "custom"]},
        custom \in {<<>>, [customNaming |-> "undefined"], [customNaming |-> "user"]},
        hook \in {<<>>, [afterRender |-> "user"]}}

InitOptions ==
    /\ config \in {mergeConfig(userConfig) : userConfig \in OptionConfigs}
    /\ locked = {}
    /\ Idle
    /\ InitRun

\* the values of sitemap.exclude the sitemap is checked on: no pattern, "/about/*",
\* "/about", "*team", "/." and two patterns at once
ExcludeLists ==
    {<<>>,
     <<<<"/", "about", "/", "*">>>>,
     <<<<"/", "about">>>>,
     <<<<"*", "team">>>>,
     <<<<"/", ".">>>>,
     <<<<"/">>, <<"*", "team", "*">>>>}

\* the values of config.sitemap: not set, set without a hostname, set with one
SitemapConfigs ==
    {NoSitemap, [set |-> TRUE, hostname |-> "", exclude |-> <<>>]}
        \cup {[set |-> TRUE, hostname |-> HostName, exclude |-> e] : e \in ExcludeLists}

\* an allow or disallow of a rule: left out, one string, or an array of strings
Undefined == [kind |-> "undefined", single |-> "", list |-> <<>>]
Single(str) == [kind |-> "single", single |-> str, list |-> <<>>]
Array(list) == [kind |-> "array", single |-> "", list |-> list]

\* the values of config.robots: not set, an empty policy, one rule or two, with allow
\* and disallow left out, a string (the empty one too) or an array
RobotsConfigs ==
    {NoRobots, [set |-> TRUE, policy |-> <<>>]}
        \cup {[set |-> TRUE, policy |-> <<[userAgent |-> "*", allow |-> a, disallow |-> d]>>] :
                a \in {Undefined, Single("/"), Array(<<"/", "/public">>)},
                d \in {Undefined, Single("/admin"), Single(""), Array(<<"/admin", "/tmp">>)}}
        \cup {[set |-> TRUE,
               policy |-> <<[userAgent |-> "Googlebot", allow |-> Single("/"),
                              disallow |-> Undefined],
                            [userAgent |-> "*", allow |-> Undefined,
                              disallow |-> Array(<<"/">>)]>>]}

\* the configurations the SEO files are checked on: "/", "/about", "/about/team", ...
\* rendered one after the other without retries, every sitemap configuration without robots.txt, and every
\* robots configuration with and without a sitemap hostname
SeoConfigs ==
    {base @@ seo :
        base \in [routes : {[kind |-> "array", throws |-> FALSE, value |-> Iota(1)]},
                  dynamicRoutes : {<<Returns(Tail(Iota(MaxRoutes)))>>},
                  parallel : {1},
                  retries : {1}],
        seo \in [sitemap : SitemapConfigs, robots : {NoRobots}]
                \cup [sitemap : {NoSitemap, [set |-> TRUE, hostname |-> HostName,
                                             exclude |-> <<>>]},
                      robots : RobotsConfigs]}

InitSeo ==
    /\ config \in {mergeConfig(userConfig) : userConfig \in SeoConfigs}
    /\ locked = {}
    /\ Idle
    /\ InitRun

\* the configurations termination is checked on: static route lists of every length
\* with every parallel, and every retries on the lists of at most one route, up to one
\* retry on the longer ones; and "/" with a generator that repeats it and adds a route
FairConfigs ==
    {c \in [routes : {[kind |-> "array", throws |-> FALSE, value |-> Iota(n)] :
                        n \in 0..MaxRoutes},
            dynamicRoutes : {<<>>},
            parallel : 1..MaxParallel,
            retries : 0..MaxRetries] :
        Len(c.routes.value) <= 1 \/ c.retries <= 1}
    \cup
    [routes : {[kind |-> "array", throws |-> FALSE, value |-> Iota(1)]},
     dynamicRoutes : {<<Returns(Iota(2))>>},
     parallel : 1..MaxParallel,
     retries : {1}]

InitFair ==
    /\ config \in {mergeConfig(userConfig) : userConfig \in FairConfigs}
    /\ locked = {}
    /\ Idle
    /\ InitRun

\* the configurations the output files are checked on: "/" and a generator that
\* returns "/about" with "/about/team" or with "/about/", under the default naming and
\* under the flat one
NameConfigs ==
    {base @@ naming :
        base \in [routes : {[kind |-> "array", throws |-> FALSE, value |-> Iota(1)]},
                  dynamicRoutes : {<<Returns(<<2, 3>>)>>, <<Returns(<<2, 0 - 2>>)>>},
                  parallel : 1..MaxParallel,
                  retries : {1}],
        naming \in {<<>>, [fileNaming |-> "flat", customNaming |-> "undefined"]}}

InitNames ==
    /\ config \in {mergeConfig(userConfig) : userConfig \in NameConfigs}
    /\ locked = {}
    /\ Idle
    /\ InitRun

\* the meta tags injectMeta is rendered as: none, one entry, two entries
MetaTags == {<<>>, <<"<meta a>">>, <<"<meta a>", "<meta b>">>}

\* the configurations the steps of render are checked on: "/" and a generated route,
\* with or without a selector to wait for, minification, meta tags and a user's
\* afterRender
StepConfigs ==
    {base @@ opts :
        base \in [routes : {[kind |-> "array", throws |-> FALSE, value |-> Iota(1)]},
                  dynamicRoutes : {<<Returns(<<2>>)>>},
                  parallel : {1},
                  retries : {1}],
        opts \in [selector : {"undefined", "#app"}, minifyHtml : BOOLEAN,
                  injectMeta : MetaTags, afterRender : {"default", "user"}]}

InitSteps ==
    /\ config \in {mergeConfig(userConfig) : userConfig \in StepConfigs}
    /\ locked = {}
    /\ Idle
    /\ InitRun

\* the configurations the CLI is checked on: "/" and a generated route, with the build
\* skipped or not
CliConfigs ==
    [routes : {[kind |-> "array", throws |-> FALSE, value |-> Iota(1)]},
     dynamicRoutes : {<<Returns(<<2>>)>>},
     parallel : {MaxParallel},
     retries : {1},
     skipBuild : BOOLEAN]

\* the generate command has been entered; config is what ConfigManager.fromFile will load
InitCli ==
    /\ config \in {mergeConfig(userConfig) : userConfig \in CliConfigs}
    /\ locked = {}
    /\ rootDir = {}
    /\ request = <<>>
    /\ response = [status |-> 0, body |-> <<>>]
    /\ cli = [pc |-> "fromFile", built |-> FALSE, code |-> 0, exit |-> 0]
    /\ trace = <<>>
    /\ InitRunAt("idle")

InitResolve ==
    /\ config \in {mergeConfig(userConfig) : userConfig \in ResolveConfigs}
    /\ locked = {}
    /\ Idle
    /\ InitRun

(***************************************************************************)
(* generate(): an exception that leaves generate() before the first try.   *)
(***************************************************************************)
\* faulty variant: the exception is kept pending while generate() goes on to clean the
\* output directory
AbortAfterCleanOutput(e) ==
    /\ pc' = "cleanOutput"
    /\ exc' = e
    /\ outcome' = "pending"

\* the exception leaves generate(): the promise it returned rejects
Abort(e) ==
    /\ pc' = "done"
    /\ exc' = e
    /\ outcome' = "threw"

(***************************************************************************)
(* resolveRoutes                                                           *)
(***************************************************************************)
\* faulty variant: an array instead of a Set
AddAllNoDedup(set, list) == set \o list

\* routes.add(route) for every route of the list: a Set keeps insertion order
RECURSIVE AddAll(_, _)
AddAll(set, list) ==
    IF list = <<>> THEN set
    ELSE AddAll(IF Head(list) \in Range(set) THEN set ELSE Append(set, Head(list)),
                Tail(list))

\* faulty variant: the call is wrapped in a try/catch that yields no routes
CallSwallowed(callback) == IF callback.throws THEN Returns(<<>>) ELSE callback

\* `await generator()` / `await this.config.routes()`: what the call yields
Call(callback) == callback

\* the static list is added, or the routes function is awaited and its result added
resolveRoutes_routes ==
    /\ pc = "resolveRoutes"
    /\ LET src == config.routes
           got == Call(src)
       IN  IF src.kind = "array"
           THEN /\ routeSet' = AddAll(routeSet, src.value)
                /\ pc' = "resolveRoutes.dynamic"
                /\ UNCHANGED <<invoked, exc, outcome>>
           ELSE /\ invoked' = Append(invoked, 0)
                /\ IF got.throws
                   THEN Abort("routes") /\ UNCHANGED routeSet
                   ELSE /\ routeSet' = AddAll(routeSet, got.value)
                        /\ pc' = "resolveRoutes.dynamic"
                        /\ UNCHANGED <<exc, outcome>>
    /\ UNCHANGED <<envVars, outputDir, browserVars, seoVars, genIdx, routes, resourceVars, batch, taskVars, outVars, results>>

\* faulty variant: the iteration does not advance
NextEntryStuck(consumed) == consumed

\* the for...of iterator over this.config.dynamicRoutes: entries consumed after one more
NextEntry(consumed) == consumed + 1

\* one iteration of `for (const {pattern, generator} of this.config.dynamicRoutes)`
resolveRoutes_generator ==
    /\ pc = "resolveRoutes.dynamic"
    /\ genIdx < Len(config.dynamicRoutes)
    /\ LET got == Call(config.dynamicRoutes[genIdx + 1])
       IN  /\ genIdx' = NextEntry(genIdx)
           /\ invoked' = Append(invoked, genIdx + 1)
           /\ IF got.throws
              THEN Abort("generator") /\ UNCHANGED routeSet
              ELSE /\ routeSet' = AddAll(routeSet, got.value)
                   /\ UNCHANGED <<pc, exc, outcome>>
    /\ UNCHANGED <<envVars, outputDir, browserVars, seoVars, routes, resourceVars, batch, taskVars, outVars, results>>

\* what a task's local `result` holds before the first render returns
NoResult ==
    [route |-> 0, html |-> <<>>, outputPath |-> <<>>, success |-> FALSE, error |-> "none",
     thrown |-> FALSE]

\* config.afterRender was not invoked (no html is the empty string: every page has a
\* root element)
NotCalled == <<>>

\* config.onError was not invoked
NoArg == [route |-> 0, error |-> "none"]

\* `return Array.from(routes)`, received by generate(); every route gets a task (idle
\* until its batch starts)
resolveRoutes_return ==
    /\ pc = "resolveRoutes.dynamic"
    /\ genIdx = Len(config.dynamicRoutes)
    /\ routes' = routeSet
    /\ pc' = "cleanOutput"
    /\ tpc' = [k \in 1..Len(routeSet) |-> "idle"]
    /\ attempts' = [k \in 1..Len(routeSet) |-> 0]
    /\ result' = [k \in 1..Len(routeSet) |-> NoResult]
    /\ calls' = [k \in 1..Len(routeSet) |-> 0]
    /\ succAt' = [k \in 1..Len(routeSet) |-> 0]
    /\ writes' = [k \in 1..Len(routeSet) |-> 0]
    /\ steps' = [k \in 1..Len(routeSet) |-> <<>>]
    /\ onErrorCalls' = [k \in 1..Len(routeSet) |-> 0]
    /\ onErrorArg' = [k \in 1..Len(routeSet) |-> NoArg]
    /\ afterRenderArg' = [k \in 1..Len(routeSet) |-> NotCalled]
    /\ UNCHANGED <<envVars, outputDir, browserVars, seoVars, routeSet, genIdx, invoked, resourceVars, batch, outVars, results,
                   exc, outcome>>

NextResolve ==
    \/ resolveRoutes_routes
    \/ resolveRoutes_generator
    \/ resolveRoutes_return

SpecResolve == InitResolve /\ [][NextResolve]_vars

(***************************************************************************)
(* generate(): cleanOutput, server.start, renderer.initialize              *)
(***************************************************************************)
\* faulty variant: no inner finally block
UnwindNoInner(scope) == "server.close"

\* faulty variant: no outer finally block
UnwindNoOuter(scope) == IF scope = "inner" THEN "renderer.close" ELSE "done"

\* the finally block that runs when control leaves a try block of generate()
Unwind(scope) ==
    IF scope = "inner" THEN "renderer.close" ELSE "server.close"

\* how generate() settles once the outer finally block is done
Settled(e) == IF e = "none" THEN "returned" ELSE "threw"

\* an output directory without files
EmptyDir == [path \in {} |-> <<>>]

\* rm rejects when it meets a path it cannot remove; with force it does not reject when
\* outputDir does not exist
RmRejects(dir, lck) == DOMAIN dir \cap lck # {}

\* what rm(outputDir, {recursive: true, force: true}) leaves of the files under outputDir
Rm(dir, lck) == [path \in DOMAIN dir \cap lck |-> dir[path]]

\* rm(outputDir, ...) settles: outputDir is gone with all it held, unless a path could
\* not be removed
rm_outputDir ==
    /\ files' = Rm(files, locked)
    /\ outputDir' = IF RmRejects(files, locked) THEN outputDir ELSE "absent"
    /\ sitemap' = NoFile
    /\ robots' = NoFile

\* faulty variant: no catch block around rm
cleanOutputRethrows(rejected) == rejected

\* whether cleanOutput throws: its catch block drops whatever rm rejects with
cleanOutputThrows(rejected) == FALSE

\* await this.cleanOutput()
cleanOutput ==
    /\ pc = "cleanOutput"
    /\ rm_outputDir
    /\ IF cleanOutputThrows(RmRejects(files, locked))
       THEN Abort("rm")
       ELSE pc' = "server.start" /\ UNCHANGED <<exc, outcome>>
    /\ UNCHANGED <<envVars, browserVars, assets, resolveVars, resourceVars, batch, taskVars,
                   overtaken, stats, results>>

\* StaticServer.start: the listen callback resolves, an 'error' event rejects
server_start ==
    /\ pc = "server.start"
    /\ \/ /\ server' = "listening"
          /\ pc' = "renderer.initialize"
          /\ UNCHANGED <<exc, outcome>>
       \/ /\ Abort("listen")
          /\ UNCHANGED server
    /\ UNCHANGED <<envVars, outputDir, browserVars, seoVars, resolveVars, browser, pages, batch, taskVars, outVars, results>>

(***************************************************************************)
(* renderRoutes                                                            *)
(***************************************************************************)
\* faulty variant: one batch more than the full ones
ParallelBatchesOneMore(n, parallel) == n \div parallel + 1

\* faulty variant: Math.floor
ParallelBatchesFloor(n, parallel) == n \div parallel

\* Math.ceil(routes.length / this.config.parallel)
ParallelBatches(n, parallel) == (n + parallel - 1) \div parallel

\* faulty variant: the slice ends one route late
SliceOneMore(n, i, parallel) == {k \in 1..n : i * parallel < k /\ k <= (i + 1) * parallel + 1}

\* routes.slice(i * parallel, (i + 1) * parallel), as the indices it selects
Slice(n, i, parallel) == {k \in 1..n : i * parallel < k /\ k <= (i + 1) * parallel}

\* faulty variant: one attempt too many
LoopAgainOffByOne(res, att, retries) == ~res.success /\ att <= retries

\* faulty variant: the loop does not look at the result
LoopAgainIgnoringSuccess(res, att, retries) == att < retries

\* while (!result.success && attempts < this.config.retries)
LoopAgain(res, att, retries) == ~res.success /\ att < retries

\* faulty variant: Promise.any
PromiseAnyResolved(idx) == \E k \in idx : tpc[k] = "done"

\* Promise.all(batch.map(...)) resolves when every task of the batch has returned
PromiseAllResolved(idx) == \A k \in idx : tpc[k] = "done"

\* the loop of renderRoutes from iteration b on, up to its next await: the tasks of
\* batch b call renderer.render, or the loop is over and generate() goes on to copyAssets
StartBatch(b) ==
    IF b < ParallelBatches(Len(routes), config.parallel)
    THEN /\ tpc' = [k \in DOMAIN tpc |->
                      IF k \in Slice(Len(routes), b, config.parallel) THEN "newPage" ELSE tpc[k]]
         /\ calls' = [k \in DOMAIN calls |->
                      IF k \in Slice(Len(routes), b, config.parallel) THEN calls[k] + 1 ELSE calls[k]]
         /\ pc' = "renderRoutes"
    ELSE /\ pc' = "copyAssets"
         /\ UNCHANGED <<tpc, calls>>

\* this.browser = await chromium.launch(...), when launch resolves: one more browser
\* runs, and this.browser refers to it
chromium_launch ==
    /\ browser' = "open"
    /\ launched' = launched + 1
    /\ teardowns' = Append(teardowns, 0)

\* chromium.launch resolves and renderRoutes starts, or launch rejects
renderer_initialize ==
    /\ pc = "renderer.initialize"
    /\ \/ /\ chromium_launch
          /\ StartBatch(0)
          /\ UNCHANGED exc
       \/ /\ exc' = "launch"
          /\ pc' = Unwind("outer")
          /\ UNCHANGED <<browser, browserVars, tpc, calls>>
    /\ UNCHANGED <<envVars, outputDir, seoVars, resolveVars, server, pages, batch, attempts, result, succAt,
                   writes, steps, onErrorCalls, onErrorArg, afterRenderArg, outVars, results,
                   outcome>>

\* the promise of a route's task rejects: Promise.all rejects on the first rejection,
\* renderRoutes throws and generate() leaves its inner try block
TaskRejects(e) ==
    IF pc = "renderRoutes"
    THEN pc' = Unwind("inner") /\ exc' = e
    ELSE UNCHANGED <<pc, exc>>

(***************************************************************************)
(* BrowserRenderer.render                                                  *)
(***************************************************************************)
\* Strings are sequences of tokens: "/" and "-" stand for themselves, ".html" for the
\* extension, every other token for a run of characters that holds none of them.
SegNames == <<"about", "team", "blog", "post">>

\* "/" for 1, "/about" for 2, "/about/team" for 3, ...
Segmented(k) ==
    IF k = 1 THEN <<"/">>
    ELSE [j \in 1..(2 * (k - 1)) |->
            IF j % 2 = 1 THEN "/" ELSE SegNames[((j \div 2 - 1) % Len(SegNames)) + 1]]

\* the route strings of the checked configurations: route 1 is "/", route 2 "/about",
\* route 3 "/about/team", ...; route -2 is "/about/", route -3 "/about/team/", ...
RouteName(k) == IF k < 0 THEN Segmented(0 - k) \o <<"/">> ELSE Segmented(k)

\* route.replace(/^\//, '')
StripLeadingSlash(route) ==
    IF Len(route) > 0 /\ route[1] = "/" THEN Tail(route) ELSE route

\* str.replace(/\//g, '-')
DashForSlash(str) == [k \in 1..Len(str) |-> IF str[k] = "/" THEN "-" ELSE str[k]]

\* faulty variant: the default names as the flat scheme does
DefaultCustomNamingFlat(route) ==
    (IF route = <<"/">> THEN <<"index">> ELSE DashForSlash(StripLeadingSlash(route)))
        \o <<".html">>

\* DEFAULT_CONFIG.customNaming
DefaultCustomNaming(route) ==
    IF route = <<"/">> THEN <<"index", ".html">>
    ELSE StripLeadingSlash(route) \o <<"/", "index", ".html">>

\* a customNaming function of the user: home.html for "/", else the segments joined by "-"
UserCustomNaming(route) ==
    IF route = <<"/">> THEN <<"home", ".html">>
    ELSE DashForSlash(StripLeadingSlash(route)) \o <<".html">>

\* this.config.customNaming(route)
customNaming(cfg, route) ==
    IF cfg.customNaming = "default" THEN DefaultCustomNaming(route) ELSE UserCustomNaming(route)

\* getOutputPath, fileNaming === 'flat'
FlatPath(route) ==
    (IF route = <<"/">> THEN <<"index">> ELSE DashForSlash(StripLeadingSlash(route)))
        \o <<".html">>

\* getOutputPath, nested structure
NestedPath(route) ==
    IF route = <<"/">> THEN <<"index", ".html">>
    ELSE StripLeadingSlash(route) \o <<"/", "index", ".html">>

\* faulty variant: fileNaming is looked at before customNaming
getOutputPathNamingFirst(cfg, route) ==
    IF cfg.fileNaming = "flat" THEN FlatPath(route)
    ELSE IF cfg.fileNaming = "nested" THEN NestedPath(route)
    ELSE customNaming(cfg, route)

\* BrowserRenderer.getOutputPath
getOutputPath(cfg, route) ==
    IF cfg.customNaming # "undefined" THEN customNaming(cfg, route)
    ELSE IF cfg.fileNaming = "flat" THEN FlatPath(route)
    ELSE NestedPath(route)

\* what `await page.content()` returns, as a sequence of tokens: tags, whitespace
\* characters and text
PageHtml == <<"<head>", " ", "\n", "<p>", "content", "\n", " ", "text", " ">>

\* the tokens that are tags: they start with '<' and end with '>'
Tags == {"<head>", "<p>", "<meta a>", "<meta b>"}

\* the tokens that /\s/ matches
Whitespace == {" ", "\n"}

\* html.replace('<head>', `<head>\n  ${metaTags}`): the first '<head>' is followed by a
\* line break, two blanks and the meta tags, which are joined by '\n  '
RECURSIVE JoinMeta(_)
JoinMeta(metaTags) ==
    IF metaTags = <<>> THEN <<>>
    ELSE IF Len(metaTags) = 1 THEN metaTags
    ELSE <<Head(metaTags), "\n", " ", " ">> \o JoinMeta(Tail(metaTags))

InjectMeta(html, metaTags) ==
    IF \E k \in 1..Len(html) : html[k] = "<head>"
    THEN LET at == CHOOSE k \in 1..Len(html) :
                       html[k] = "<head>" /\ \A j \in 1..(k - 1) : html[j] # "<head>"
         IN  SubSeq(html, 1, at) \o <<"\n", " ", " ">> \o JoinMeta(metaTags)
                 \o SubSeq(html, at + 1, Len(html))
    ELSE html

\* .replace(/\s+/g, ' '): every run of whitespace becomes one blank
RECURSIVE CollapseWhitespace(_)
CollapseWhitespace(html) ==
    IF html = <<>> THEN <<>>
    ELSE IF Head(html) \in Whitespace
         THEN IF Len(html) > 1 /\ html[2] \in Whitespace
              THEN CollapseWhitespace(Tail(html))
              ELSE <<" ">> \o CollapseWhitespace(Tail(html))
         ELSE <<Head(html)>> \o CollapseWhitespace(Tail(html))

\* .replace(/>\s+</g, '><'): whitespace between two tags is removed
BetweenTags(html, k) ==
    /\ html[k] \in Whitespace
    /\ \E a \in 1..(k - 1) :
          /\ html[a] \in Tags
          /\ \A j \in (a + 1)..k : html[j] \in Whitespace
    /\ \E b \in (k + 1)..Len(html) :
          /\ html[b] \in Tags
          /\ \A j \in k..(b - 1) : html[j] \in Whitespace

RECURSIVE Keep(_, _, _)
Keep(html, k, dropped) ==
    IF k > Len(html) THEN <<>>
    ELSE (IF k \in dropped THEN <<>> ELSE <<html[k]>>) \o Keep(html, k + 1, dropped)

StripBetweenTags(html) == Keep(html, 1, {k \in 1..Len(html) : BetweenTags(html, k)})

\* .trim(): whitespace at both ends is removed
RECURSIVE TrimStart(_)
TrimStart(html) ==
    IF html # <<>> /\ Head(html) \in Whitespace THEN TrimStart(Tail(html)) ELSE html

RECURSIVE TrimEnd(_)
TrimEnd(html) ==
    IF html # <<>> /\ html[Len(html)] \in Whitespace
    THEN TrimEnd(SubSeq(html, 1, Len(html) - 1))
    ELSE html

Minify(html) == TrimEnd(TrimStart(StripBetweenTags(CollapseWhitespace(html))))

\* faulty variant: the html is minified before the meta tags are injected
postProcessMinifyFirst(cfg, html) ==
    LET minified == IF cfg.minifyHtml THEN Minify(html) ELSE html
    IN  IF Len(cfg.injectMeta) > 0 THEN InjectMeta(minified, cfg.injectMeta) ELSE minified

\* postProcess: meta tags are injected when there are any, then the html is minified
\* when minifyHtml is set
postProcess(cfg, html) ==
    LET injected == IF Len(cfg.injectMeta) > 0 THEN InjectMeta(html, cfg.injectMeta) ELSE html
    IN  IF cfg.minifyHtml THEN Minify(injected) ELSE injected

\* what `await this.config.afterRender(route, html)` evaluates to: the default hook
\* returns the html it was given, the user's hook returns html modified
afterRender(cfg, route, html) ==
    IF cfg.afterRender = "default" THEN html ELSE html \o <<"afterRender">>

\* what the try block of render can fail with: a navigation or selector-wait timeout,
\* or a beforeRender/afterRender hook that throws
RenderErrors == {"timeout", "hook"}

\* the statements of the try block that run only under some configurations: the
\* selector wait, and inside postProcess the meta-tag injection and the minification
SelectorSteps(cfg) == IF cfg.selector # "undefined" THEN <<"waitForSelector">> ELSE <<>>

PostProcessSteps(cfg) ==
    <<"postProcess">> \o (IF Len(cfg.injectMeta) > 0 THEN <<"injectMeta">> ELSE <<>>)
                     \o (IF cfg.minifyHtml THEN <<"minify">> ELSE <<>>)

\* faulty variant: the page is navigated before beforeRender is invoked
TryStepsGotoFirst(cfg) ==
    <<"goto", "beforeRender">> \o SelectorSteps(cfg) \o <<"content">>
        \o PostProcessSteps(cfg) \o <<"afterRender">>

\* the steps of the try block, in statement order
TrySteps(cfg) ==
    <<"beforeRender", "goto">> \o SelectorSteps(cfg) \o <<"content">>
        \o PostProcessSteps(cfg) \o <<"afterRender">>

\* the steps of the try block that can throw: a beforeRender hook, the navigation, the
\* selector wait, and an afterRender hook of the user (the default one only returns its
\* argument)
FailingSteps(cfg) ==
    {"beforeRender", "goto"} \cup Range(SelectorSteps(cfg))
        \cup (IF cfg.afterRender = "user" THEN {"afterRender"} ELSE {})

\* what a step throws: the navigation and the selector wait a timeout, a hook its own
\* error
ErrorOf(step) == IF step \in {"goto", "waitForSelector"} THEN "timeout" ELSE "hook"

\* the steps that have run when the given one throws
StepsUpTo(cfg, step) ==
    SubSeq(TrySteps(cfg), 1, CHOOSE k \in 1..Len(TrySteps(cfg)) : TrySteps(cfg)[k] = step)

\* faulty variant: the failed result keeps the page's html
CaughtWithHtml(route, error) ==
    [route |-> route, html |-> PageHtml, outputPath |-> getOutputPath(config, RouteName(route)),
     success |-> FALSE, error |-> error, thrown |-> FALSE]

\* faulty variant: the catch block rethrows
CaughtRethrown(route, error) ==
    [route |-> route, html |-> <<>>, outputPath |-> getOutputPath(config, RouteName(route)),
     success |-> FALSE, error |-> error, thrown |-> TRUE]

\* the catch block's return value, once onError has returned
Caught(route, error) ==
    [route |-> route, html |-> <<>>, outputPath |-> getOutputPath(config, RouteName(route)),
     success |-> FALSE, error |-> error, thrown |-> FALSE]

\* render throws: no RenderResult
Thrown(error) == [NoResult EXCEPT !.error = error, !.thrown = TRUE]

\* the try block's return value
Rendered(route, html) ==
    [route |-> route, html |-> html, outputPath |-> getOutputPath(config, RouteName(route)),
     success |-> TRUE, error |-> "none", thrown |-> FALSE]

\* `await this.browser.newPage(...)` settles
render_newPage(i) ==
    /\ tpc[i] = "newPage"
    /\ \/ /\ browser = "open"
          /\ pages' = pages \cup {i}
          /\ tpc' = [tpc EXCEPT ![i] = "page"]
          /\ UNCHANGED <<pc, exc>>
       \/ /\ tpc' = [tpc EXCEPT ![i] = "rejected"]
          /\ TaskRejects("newPage")
          /\ UNCHANGED pages
    /\ UNCHANGED <<envVars, outputDir, browserVars, seoVars, resolveVars, server, browser, batch, attempts, result, calls,
                   succAt, writes, steps, onErrorCalls, onErrorArg, afterRenderArg, outVars,
                   results, outcome>>

\* beforeRender, goto, waitForSelector, content, postProcess, afterRender: the try
\* block runs to its return, or one of its steps throws and the catch block calls onError
render_body(i) ==
    /\ tpc[i] = "page"
    /\ \/ /\ i \in pages
          /\ LET html == postProcess(config, PageHtml)
                 returned == afterRender(config, RouteName(routes[i]), html)
             IN  /\ result' = [result EXCEPT ![i] = Rendered(routes[i], html)]
                 /\ afterRenderArg' = [afterRenderArg EXCEPT ![i] = html]
          /\ succAt' = [succAt EXCEPT ![i] = IF @ = 0 THEN calls[i] ELSE @]
          /\ steps' = [steps EXCEPT ![i] = TrySteps(config)]
          /\ tpc' = [tpc EXCEPT ![i] = "finally"]
       \/ \E step \in FailingSteps(config) :
            /\ result' = [result EXCEPT ![i] = [NoResult EXCEPT !.error = ErrorOf(step)]]
            /\ steps' = [steps EXCEPT ![i] = StepsUpTo(config, step)]
            /\ afterRenderArg' = [afterRenderArg EXCEPT ![i] =
                    IF step = "afterRender" THEN postProcess(config, PageHtml) ELSE NotCalled]
            /\ tpc' = [tpc EXCEPT ![i] = "onError"]
            /\ UNCHANGED succAt
    /\ UNCHANGED <<envVars, outputDir, browserVars, seoVars, pc, resolveVars, resourceVars, batch, attempts, calls, writes,
                   onErrorCalls, onErrorArg, outVars, results, exc, outcome>>

\* `await this.config.onError?.(route, error)` settles
render_onError(i) ==
    /\ tpc[i] = "onError"
    /\ onErrorCalls' = [onErrorCalls EXCEPT ![i] = @ + 1]
    /\ onErrorArg' = [onErrorArg EXCEPT ![i] = [route |-> routes[i], error |-> result[i].error]]
    /\ \/ result' = [result EXCEPT ![i] = Caught(routes[i], result[i].error)]
       \/ result' = [result EXCEPT ![i] = Thrown("onError")]
    /\ tpc' = [tpc EXCEPT ![i] = "finally"]
    /\ UNCHANGED <<envVars, outputDir, browserVars, seoVars, pc, resolveVars, resourceVars, batch, attempts, calls, succAt,
                   writes, steps, afterRenderArg, outVars, results, exc, outcome>>

\* faulty variant: the file is written whatever the result
AfterLoopAlwaysWrites(res) == "writeHtml"

\* `if (result.success) { await this.writeHtml(...) }` after the do-while loop, then
\* `return result`
AfterLoop(res) == IF res.success THEN "writeHtml" ELSE "done"

\* the task of route i returns while the task of an earlier route of its batch has not
Overtakes(i) ==
    \E j \in Slice(Len(routes), batch, config.parallel) : j < i /\ tpc[j] # "done"

\* `await page.close()` in the finally block settles; render returns or throws, and the
\* task's do-while loop goes on to its next await
render_finally(i) ==
    /\ tpc[i] = "finally"
    /\ pages' = pages \ {i}
    /\ IF result[i].thrown
       THEN /\ tpc' = [tpc EXCEPT ![i] = "rejected"]
            /\ TaskRejects(result[i].error)
            /\ UNCHANGED <<attempts, calls, steps, onErrorCalls, onErrorArg, afterRenderArg,
                           overtaken>>
       ELSE /\ attempts' = [attempts EXCEPT ![i] = @ + 1]
            /\ IF LoopAgain(result[i], attempts[i] + 1, config.retries)
               THEN /\ calls' = [calls EXCEPT ![i] = @ + 1]
                    /\ steps' = [steps EXCEPT ![i] = <<>>]
                    /\ onErrorCalls' = [onErrorCalls EXCEPT ![i] = 0]
                    /\ onErrorArg' = [onErrorArg EXCEPT ![i] = NoArg]
                    /\ afterRenderArg' = [afterRenderArg EXCEPT ![i] = NotCalled]
                    /\ IF browser = "open"
                       THEN /\ tpc' = [tpc EXCEPT ![i] = "newPage"]
                            /\ UNCHANGED <<pc, exc>>
                       ELSE /\ tpc' = [tpc EXCEPT ![i] = "rejected"]
                            /\ TaskRejects("notInitialized")
                    /\ UNCHANGED overtaken
               ELSE /\ tpc' = [tpc EXCEPT ![i] = AfterLoop(result[i])]
                    /\ overtaken' = (overtaken \/ (AfterLoop(result[i]) = "done" /\ Overtakes(i)))
                    /\ UNCHANGED <<calls, steps, onErrorCalls, onErrorArg, afterRenderArg, pc,
                                   exc>>
    /\ UNCHANGED <<envVars, outputDir, browserVars, seoVars, resolveVars, server, browser, batch, result, succAt, writes,
                   files, stats, results, outcome>>

\* writeFile(fullPath, html): the file at the path is created or replaced
\* join(this.config.outputDir, outputPath), relative to outputDir: path.join
\* normalises its result, a run of slashes becomes one slash
RECURSIVE join(_)
join(path) ==
    IF Len(path) < 2 THEN path
    ELSE IF path[1] = "/" /\ path[2] = "/" THEN join(Tail(path))
    ELSE <<Head(path)>> \o join(Tail(path))

WriteFile(dir, path, html) ==
    [q \in DOMAIN dir \cup {path} |-> IF q = path THEN html ELSE dir[q]]

\* mkdir and writeFile of writeHtml(result.html, result.outputPath) settle
writeHtml(i) ==
    /\ tpc[i] = "writeHtml"
    /\ \/ /\ writes' = [writes EXCEPT ![i] = @ + 1]
          /\ files' = WriteFile(files, join(result[i].outputPath), result[i].html)
          /\ outputDir' = "present"
          /\ tpc' = [tpc EXCEPT ![i] = "done"]
          /\ overtaken' = (overtaken \/ Overtakes(i))
          /\ UNCHANGED <<pc, exc>>
       \/ /\ tpc' = [tpc EXCEPT ![i] = "rejected"]
          /\ TaskRejects("writeHtml")
          /\ UNCHANGED <<writes, files, outputDir, overtaken>>
    /\ UNCHANGED <<envVars, browserVars, seoVars, resolveVars, resourceVars, batch, attempts, result, calls, succAt,
                   steps, onErrorCalls, onErrorArg, afterRenderArg, stats, results, outcome>>

\* faulty variant: the batch's results in reverse order
RECURSIVE BatchResultsReversed(_, _)
BatchResultsReversed(from, to) ==
    IF from > to THEN <<>>
    ELSE BatchResultsReversed(from + 1, to)
            \o <<[route |-> result[from].route, html |-> result[from].html,
                  outputPath |-> result[from].outputPath, success |-> result[from].success,
                  error |-> result[from].error]>>

\* the batch's results, in the order of the batch: Promise.all resolves to the values
\* of its promises in the order of the promises
RECURSIVE BatchResults(_, _)
BatchResults(from, to) ==
    IF from > to THEN <<>>
    ELSE <<[route |-> result[from].route, html |-> result[from].html,
            outputPath |-> result[from].outputPath, success |-> result[from].success,
            error |-> result[from].error]>> \o BatchResults(from + 1, to)

\* faulty variant: the list is assigned the batch's results
PushReplaces(list, items) == items

\* list.push(...items)
Push(list, items) == list \o items

\* Promise.all resolves: results.push(...batchResults), and the loop goes on
renderRoutes_join ==
    /\ pc = "renderRoutes"
    /\ PromiseAllResolved(Slice(Len(routes), batch, config.parallel))
    /\ results' = Push(results, BatchResults(batch * config.parallel + 1,
                                             Min((batch + 1) * config.parallel, Len(routes))))
    /\ batch' = batch + 1
    /\ StartBatch(batch + 1)
    /\ UNCHANGED <<envVars, outputDir, browserVars, seoVars, resolveVars, resourceVars, attempts, result, succAt, writes,
                   steps, onErrorCalls, onErrorArg, afterRenderArg, outVars, exc, outcome>>

(***************************************************************************)
(* generate(): copyAssets, the SEO files, and the two finally blocks       *)
(***************************************************************************)
\* faulty variant: no catch block in copyAssets
copyAssetsRethrows(failed) == failed

\* whether copyAssets throws: its catch block warns and drops whatever glob, mkdir or cp
\* failed with (a failed copy of the public directory is dropped before that)
copyAssetsThrows(failed) == FALSE

\* await this.copyAssets(): the assets of a built app are copied (which creates
\* outputDir), or a step of the copy fails
copyAssets ==
    /\ pc = "copyAssets"
    /\ \E failed \in BOOLEAN :
          /\ assets' = IF failed THEN "failed" ELSE "copied"
          /\ outputDir' = IF failed THEN outputDir ELSE "present"
          /\ IF copyAssetsThrows(failed)
             THEN pc' = Unwind("inner") /\ exc' = "copyAssets"
             ELSE pc' = "generateSitemap" /\ UNCHANGED exc
    /\ UNCHANGED <<envVars, browserVars, sitemap, robots, resolveVars, resourceVars, batch,
                   taskVars, outVars, results, outcome>>

\* new URL(route, hostname).href, for a route that starts with "/"
Href(route, hostname) == <<hostname>> \o route

\* the characters _globToRegex escapes (the model's strings hold no other of them)
SpecialChars == {".", "?", "+", "$"}

\* _globToRegex: "*" becomes ".*", a special character is escaped, every other
\* character stands for itself (the anchors are in RegexTest)
GlobToRegex(glob) ==
    [k \in 1..Len(glob) |->
        IF glob[k] = "*" THEN [op |-> ".*", char |-> ""]
        ELSE IF glob[k] \in SpecialChars THEN [op |-> "escaped", char |-> glob[k]]
        ELSE [op |-> "char", char |-> glob[k]]]

\* one element of a regular expression matches one token of a string: an unescaped "."
\* matches any
ElementMatches(e, token) ==
    IF e.op = "char" /\ e.char = "." THEN TRUE ELSE e.char = token

\* new RegExp(`^${regexString}$`).test(str)
RECURSIVE RegexTest(_, _)
RegexTest(regex, str) ==
    IF regex = <<>> THEN str = <<>>
    ELSE IF Head(regex).op = ".*"
         THEN RegexTest(Tail(regex), str) \/ (str # <<>> /\ RegexTest(regex, Tail(str)))
         ELSE str # <<>> /\ ElementMatches(Head(regex), Head(str))
                /\ RegexTest(Tail(regex), Tail(str))

\* excludePatterns.some(p => p.test(route))
Excluded(route, exclude) ==
    \E k \in 1..Len(exclude) : RegexTest(GlobToRegex(exclude[k]), route)

\* faulty variant: the results are not filtered by success
RECURSIVE SitemapUrlsOfAll(_, _)
SitemapUrlsOfAll(list, cfg) ==
    IF list = <<>> THEN <<>>
    ELSE (IF ~Excluded(RouteName(Head(list).route), cfg.exclude)
          THEN <<Href(RouteName(Head(list).route), cfg.hostname)>> ELSE <<>>)
            \o SitemapUrlsOfAll(Tail(list), cfg)

\* results.filter(r => r.success).map(r => r.route).filter(not excluded).map(href)
RECURSIVE SitemapUrls(_, _)
SitemapUrls(list, cfg) ==
    IF list = <<>> THEN <<>>
    ELSE (IF Head(list).success /\ ~Excluded(RouteName(Head(list).route), cfg.exclude)
          THEN <<Href(RouteName(Head(list).route), cfg.hostname)>> ELSE <<>>)
            \o SitemapUrls(Tail(list), cfg)

\* sitemapContent, as its lines: the declaration, the urlset element, a url element for
\* every url
SitemapContent(urls) ==
    <<<<"<?xml?>">>, <<"<urlset>">>>>
        \o [k \in 1..Len(urls) |-> <<"<url><loc>">> \o urls[k] \o <<"</loc></url>">>]
        \o <<<<"</urlset>">>>>

\* if (!this.config.sitemap || !this.config.sitemap.hostname) return
SitemapConfigured(cfg) == cfg.sitemap.set /\ cfg.sitemap.hostname # ""

\* _generateSitemap returns at once without a hostname; else it writes sitemap.xml, or
\* writeFile throws
generateSitemap ==
    /\ pc = "generateSitemap"
    /\ IF ~SitemapConfigured(config)
       THEN pc' = "generateRobotsTxt" /\ UNCHANGED <<sitemap, exc>>
       ELSE \/ /\ sitemap' = SitemapContent(SitemapUrls(results, config.sitemap))
               /\ pc' = "generateRobotsTxt"
               /\ UNCHANGED exc
            \/ /\ pc' = Unwind("inner")
               /\ exc' = "sitemap"
               /\ UNCHANGED sitemap
    /\ UNCHANGED <<envVars, outputDir, browserVars, assets, robots, resolveVars, resourceVars,
                   batch, taskVars, outVars, results, outcome>>

\* results.filter(r => r.success).length
RECURSIVE SuccessCount(_)
SuccessCount(list) ==
    IF list = <<>> THEN 0
    ELSE (IF Head(list).success THEN 1 ELSE 0) + SuccessCount(Tail(list))

\* faulty variant: failed is the number of results
StatsFailedIsTotal(list) ==
    [total |-> Len(list), success |-> SuccessCount(list), failed |-> Len(list)]

\* the RenderStats generate() returns (without duration and the results themselves)
Stats(list) ==
    [total |-> Len(list), success |-> SuccessCount(list),
     failed |-> Len(list) - SuccessCount(list)]

\* Array.isArray(value) ? value : [value], for an allow or disallow that is truthy
AsArray(value) == IF value.kind = "array" THEN value.list ELSE <<value.single>>

\* if (rule.allow), if (rule.disallow): undefined and the empty string are falsy, every
\* array is truthy
Truthy(value) ==
    \/ value.kind = "array"
    \/ value.kind = "single" /\ value.single # ""

\* the lines one rule pushes
RuleLines(rule) ==
    <<<<"User-agent:", " ", rule.userAgent>>>>
        \o (IF Truthy(rule.allow)
            THEN [k \in 1..Len(AsArray(rule.allow)) |-> <<"Allow:", " ", AsArray(rule.allow)[k]>>]
            ELSE <<>>)
        \o (IF Truthy(rule.disallow)
            THEN [k \in 1..Len(AsArray(rule.disallow)) |->
                    <<"Disallow:", " ", AsArray(rule.disallow)[k]>>]
            ELSE <<>>)
        \o <<<<>>>>

\* the lines all rules push, in the order of the policy array
RECURSIVE PolicyLines(_)
PolicyLines(policy) ==
    IF policy = <<>> THEN <<>> ELSE RuleLines(Head(policy)) \o PolicyLines(Tail(policy))

\* the Sitemap line, pushed if this.config.sitemap && this.config.sitemap.hostname
SitemapLine(cfg) ==
    IF SitemapConfigured(cfg)
    THEN <<<<"Sitemap:", " ", cfg.sitemap.hostname, "/", "sitemap.xml">>>>
    ELSE <<>>

\* the tokens of a line without the white space and the empty strings at its end
RECURSIVE TrimLine(_)
TrimLine(line) ==
    IF line # <<>> /\ line[Len(line)] \in {"", " "}
    THEN TrimLine(SubSeq(line, 1, Len(line) - 1))
    ELSE line

\* lines.join('\n').trim(), as lines: the empty lines at the end go, and the white
\* space at the end of the last line that is left (no line starts with white space)
RECURSIVE Trim(_)
Trim(lines) ==
    IF lines = <<>> THEN <<>>
    ELSE IF TrimLine(lines[Len(lines)]) = <<>> THEN Trim(SubSeq(lines, 1, Len(lines) - 1))
    ELSE SubSeq(lines, 1, Len(lines) - 1) \o <<TrimLine(lines[Len(lines)])>>

\* the content _generateRobotsTxt writes
RobotsContent(cfg) == Trim(PolicyLines(cfg.robots.policy) \o SitemapLine(cfg))

\* _generateRobotsTxt returns at once when robots is not set, or writes robots.txt, and
\* generate() returns its stats; or writeFile throws
generateRobotsTxt ==
    /\ pc = "generateRobotsTxt"
    /\ pc' = Unwind("inner")
    /\ IF ~config.robots.set
       THEN stats' = Stats(results) /\ UNCHANGED <<robots, exc>>
       ELSE \/ /\ robots' = RobotsContent(config)
               /\ stats' = Stats(results)
               /\ UNCHANGED exc
            \/ /\ exc' = "robots"
               /\ UNCHANGED <<robots, stats>>
    /\ UNCHANGED <<envVars, outputDir, browserVars, assets, sitemap, resolveVars, resourceVars,
                   batch, taskVars, overtaken, files, results, outcome>>

\* faulty variant: this.browser is not cleared
NotCleared(b) == b

\* this.browser = undefined
Cleared(b) == "closed"

\* await this.browser.close() resolves: the browser this.browser refers to (the one
\* launched last) is torn down with its pages, and this.browser is cleared
browser_close ==
    /\ teardowns' = [teardowns EXCEPT ![launched] = @ + 1]
    /\ launched' = launched
    /\ browser' = Cleared(browser)
    /\ pages' = {}

\* inner finally: renderer.close(), which finds this.browser set; browser.close()
\* resolves, or it rejects and this.browser stays set
renderer_close ==
    /\ pc = "renderer.close"
    /\ pc' = Unwind("outer")
    /\ \/ /\ browser_close
          /\ UNCHANGED exc
       \/ /\ exc' = "browser.close"
          /\ UNCHANGED <<browser, browserVars, pages>>
    /\ UNCHANGED <<envVars, outputDir, seoVars, resolveVars, server, batch, taskVars, outVars, results, outcome>>

\* outer finally: serverInstance.close() resolves, and generate() settles
serverInstance_close ==
    /\ pc = "server.close"
    /\ server' = "closed"
    /\ pc' = "done"
    /\ outcome' = Settled(exc)
    /\ UNCHANGED <<envVars, outputDir, browserVars, seoVars, resolveVars, browser, pages, batch, taskVars, outVars, results, exc>>

Next ==
    \/ resolveRoutes_routes
    \/ resolveRoutes_generator
    \/ resolveRoutes_return
    \/ cleanOutput
    \/ server_start
    \/ renderer_initialize
    \/ \E i \in DOMAIN tpc : render_newPage(i)
    \/ \E i \in DOMAIN tpc : render_body(i)
    \/ \E i \in DOMAIN tpc : render_onError(i)
    \/ \E i \in DOMAIN tpc : render_finally(i)
    \/ \E i \in DOMAIN tpc : writeHtml(i)
    \/ renderRoutes_join
    \/ copyAssets
    \/ generateSitemap
    \/ generateRobotsTxt
    \/ renderer_close
    \/ serverInstance_close

Spec == Init /\ [][Next]_vars

\* whole runs in which a step that can be taken is taken: every awaited promise settles
\* and the event loop runs the continuation that waits for it
SpecFair == InitFair /\ [][Next]_vars /\ WF_vars(Next)

\* generate() under the configurations that set rendering options
SpecOptions == InitOptions /\ [][Next]_vars

(***************************************************************************)
(* cleanOutput and the BrowserRenderer, called on their own                *)
(***************************************************************************)
\* the paths of the output directories cleanOutput is checked on
CleanPaths == {<<"index", ".html">>, <<"about", "/", "index", ".html">>, <<"old", ".html">>}

\* the output directories cleanOutput is checked on: none, or one that holds some of
\* the paths; the first entry of trace is the directory as it is found
InitClean ==
    /\ config \in {mergeConfig([routes |-> [kind |-> "array", throws |-> FALSE, value |-> <<>>],
                                dynamicRoutes |-> <<>>, parallel |-> 1, retries |-> 1])}
    /\ locked \in SUBSET CleanPaths
    /\ rootDir = {}
    /\ request = <<>>
    /\ response = [status |-> 0, body |-> <<>>]
    /\ cli = [pc |-> "none", built |-> FALSE, code |-> 0, exit |-> 0]
    /\ \E dir \in {"absent", "present"} :
        \E held \in (IF dir = "absent" THEN {{}} ELSE SUBSET CleanPaths) :
            /\ InitRunIn("idle", dir, [path \in held |-> PageHtml])
            /\ trace = <<[threw |-> FALSE, outputDir |-> dir,
                          files |-> [path \in held |-> PageHtml]]>>

\* one call of cleanOutput(), with what it leaves
cleanOutput_call ==
    /\ pc = "idle"
    /\ Len(trace) <= MaxCalls
    /\ rm_outputDir
    /\ trace' = Append(trace, [threw |-> cleanOutputThrows(RmRejects(files, locked)),
                               outputDir |-> outputDir', files |-> files'])
    /\ UNCHANGED <<config, locked, rootDir, request, response, cli, pc, resolveVars,
                   resourceVars, browserVars, batch, taskVars, overtaken, stats, assets,
                   results, exc, outcome>>

NextClean == cleanOutput_call

\* calls of cleanOutput() in a row
SpecClean == InitClean /\ [][NextClean]_vars

\* a BrowserRenderer that has just been constructed
InitRenderer ==
    /\ config \in {mergeConfig([routes |-> [kind |-> "array", throws |-> FALSE, value |-> <<>>],
                                dynamicRoutes |-> <<>>, parallel |-> 1, retries |-> 1])}
    /\ locked = {}
    /\ Idle
    /\ InitRunAt("idle")

\* one call of initialize(): launch resolves, or it rejects and initialize() throws
initialize_call ==
    /\ pc = "idle"
    /\ Len(trace) < MaxCalls
    /\ \/ /\ chromium_launch
          /\ trace' = Append(trace, [op |-> "initialize", threw |-> FALSE])
       \/ /\ trace' = Append(trace, [op |-> "initialize", threw |-> TRUE])
          /\ UNCHANGED <<browser, browserVars>>
    /\ UNCHANGED <<config, locked, rootDir, request, response, cli, pc, resolveVars,
                   outputDir, server, pages, batch, taskVars, outVars, seoVars, results,
                   exc, outcome>>

\* one call of close(): if (this.browser) the browser is closed, which resolves or
\* rejects; else close() returns at once
close_call ==
    /\ pc = "idle"
    /\ Len(trace) < MaxCalls
    /\ IF browser = "open"
       THEN \/ /\ browser_close
               /\ trace' = Append(trace, [op |-> "close", threw |-> FALSE])
            \/ /\ trace' = Append(trace, [op |-> "close", threw |-> TRUE])
               /\ UNCHANGED <<browser, browserVars, pages>>
       ELSE /\ trace' = Append(trace, [op |-> "close", threw |-> FALSE])
            /\ UNCHANGED <<browser, browserVars, pages>>
    /\ UNCHANGED <<config, locked, rootDir, request, response, cli, pc, resolveVars,
                   outputDir, server, batch, taskVars, outVars, seoVars, results, exc,
                   outcome>>

NextRenderer ==
    \/ initialize_call
    \/ close_call

\* calls of initialize() and close() on one BrowserRenderer, in any order
SpecRenderer == InitRenderer /\ [][NextRenderer]_vars

(***************************************************************************)
(* server.ts: StaticServer.handleRequest                                   *)
(***************************************************************************)
\* A pathname is the sequence of its segments: <<>> is "/", <<"v1.2", "users">> is
\* "/v1.2/users". The segments requests and files are made of:
Segments == {"about", "users", "v1.2", "app.js", "index.html"}

\* the segments that hold a "."
DottedSegments == {"v1.2", "app.js", "index.html"}

\* the files rootDir may hold (a directory exists when a file is below it)
ServedFiles ==
    {<<"index.html">>, <<"about", "index.html">>, <<"app.js">>, <<"v1.2", "app.js">>}

\* the content of the file at a path
FileContent(path) == <<"content of">> \o path

\* stats.isFile()
IsFile(dir, path) == path \in dir

\* stats.isDirectory(): rootDir itself, or a directory that holds a file
IsDirectory(dir, path) ==
    \/ path = <<>>
    \/ \E f \in dir : Len(f) > Len(path) /\ SubSeq(f, 1, Len(path)) = path

\* stat(filePath) resolves
Exists(dir, path) == IsFile(dir, path) \/ IsDirectory(dir, path)

\* url.pathname.includes('.'): a "." anywhere in the pathname
IncludesDot(pathname) == \E k \in 1..Len(pathname) : pathname[k] \in DottedSegments

\* the file handleRequest goes on to read: index.html of a directory, the file itself,
\* or the root index.html when stat failed
FilePath(dir, pathname) ==
    IF IsDirectory(dir, pathname) THEN pathname \o <<"index.html">>
    ELSE IF IsFile(dir, pathname) THEN pathname
    ELSE <<"index.html">>

\* handleRequest: 404 when stat failed and the pathname includes a "."; else the file is
\* read and sent with 200, and a failing readFile is answered with 500 by the outer catch
handleRequest ==
    /\ response.status = 0
    /\ response' =
        IF ~Exists(rootDir, request) /\ IncludesDot(request)
        THEN [status |-> 404, body |-> <<"Not Found">>]
        ELSE IF IsFile(rootDir, FilePath(rootDir, request))
        THEN [status |-> 200, body |-> FileContent(FilePath(rootDir, request))]
        ELSE [status |-> 500, body |-> <<"Internal Server Error">>]
    /\ UNCHANGED <<config, locked, rootDir, request, cli, trace, pc, resolveVars,
                   outputDir, resourceVars, browserVars, batch, taskVars, outVars, seoVars,
                   results, exc, outcome>>

\* a StaticServer over a rootDir, and a request that has come in
InitServer ==
    /\ config \in {mergeConfig([routes |-> [kind |-> "array", throws |-> FALSE, value |-> <<>>],
                                dynamicRoutes |-> <<>>, parallel |-> 1, retries |-> 1])}
    /\ locked = {}
    /\ rootDir \in SUBSET ServedFiles
    /\ request \in SeqsUpTo(Segments, MaxDepth)
    /\ response = [status |-> 0, body |-> <<>>]
    /\ cli = [pc |-> "none", built |-> FALSE, code |-> 0, exit |-> 0]
    /\ trace = <<>>
    /\ InitRunAt("idle")

NextServer == handleRequest

\* the static server handles one request
SpecServer == InitServer /\ [][NextServer]_vars

(***************************************************************************)
(* cli.ts: the generate command                                            *)
(***************************************************************************)
\* the exit codes of the build command the CLI is checked on (2 also stands for the
\* null of a build killed by a signal)
BuildExitCodes == 0..MaxExitCode

\* process.exit(code)
Exit(code) == cli' = [cli EXCEPT !.pc = "exited", !.exit = code]

\* await ConfigManager.fromFile(options.config) settles: it throws and the catch block
\* exits with 1, or the configuration says whether the build runs
cli_fromFile ==
    /\ cli.pc = "fromFile"
    /\ \/ Exit(1)
       \/ cli' = [cli EXCEPT !.pc = IF config.skipBuild THEN "generate" ELSE "runBuild"]
    /\ UNCHANGED <<config, locked, rootDir, request, response, trace, pc, resolveVars,
                   outputDir, resourceVars, browserVars, batch, taskVars, outVars, seoVars,
                   results, exc, outcome>>

\* faulty variant: the exit code of the build is not looked at
BuildAlwaysResolves(code) == TRUE

\* runBuild: on 'exit' the promise resolves if code === 0, else it rejects
BuildResolves(code) == code = 0

\* await runBuild(config.buildCommand) settles: the build has exited; a rejection goes
\* to the catch block, which exits with 1
cli_runBuild ==
    /\ cli.pc = "runBuild"
    /\ \E code \in BuildExitCodes :
          cli' = IF BuildResolves(code)
                 THEN [cli EXCEPT !.pc = "generate", !.built = TRUE, !.code = code]
                 ELSE [cli EXCEPT !.pc = "exited", !.built = TRUE, !.code = code, !.exit = 1]
    /\ UNCHANGED <<config, locked, rootDir, request, response, trace, pc, resolveVars,
                   outputDir, resourceVars, browserVars, batch, taskVars, outVars, seoVars,
                   results, exc, outcome>>

\* new StaticGenerator(config) and generator.generate() is called
cli_generate ==
    /\ cli.pc = "generate"
    /\ pc = "idle"
    /\ pc' = "resolveRoutes"
    /\ cli' = [cli EXCEPT !.pc = "awaiting"]
    /\ UNCHANGED <<config, locked, rootDir, request, response, trace, resolveVars,
                   outputDir, resourceVars, browserVars, batch, taskVars, outVars, seoVars,
                   results, exc, outcome>>

\* faulty variant: the failed count is not looked at
ExitCodeIgnoringFailed(st) == 0

\* if (stats.failed > 0) process.exit(1); else the action returns and the process ends
\* with 0
ExitCode(st) == IF st.failed > 0 THEN 1 ELSE 0

\* await generator.generate() settles: the stats are reported, or the catch block exits
\* with 1
cli_exit ==
    /\ cli.pc = "awaiting"
    /\ pc = "done"
    /\ IF outcome = "threw" THEN Exit(1) ELSE Exit(ExitCode(stats))
    /\ UNCHANGED <<config, locked, rootDir, request, response, trace, pc, resolveVars,
                   outputDir, resourceVars, browserVars, batch, taskVars, outVars, seoVars,
                   results, exc, outcome>>

NextCli ==
    \/ cli_fromFile
    \/ cli_runBuild
    \/ cli_generate
    \/ cli_exit
    \/ Next

\* the generate command of the CLI, from its start to the exit of the process
SpecCli == InitCli /\ [][NextCli]_vars

\* generate() under the configurations that set the sitemap and robots.txt options
SpecSeo == InitSeo /\ [][Next]_vars

\* runs of generate() over route lists with routes that differ in a trailing slash
SpecNames == InitNames /\ [][Next]_vars

\* runs of generate() over the options that add or remove steps of render
SpecSteps == InitSteps /\ [][Next]_vars

(***************************************************************************)
(* Properties.                                                             *)
(***************************************************************************)
\* the batch a route index belongs to
BatchOf(i) == (i - 1) \div config.parallel

\* the tasks that are inside renderer.render
InRender == {i \in DOMAIN tpc : tpc[i] \in {"newPage", "page", "onError", "finally"}}

\* C1: no render of a route of a later batch is started before every route of every
\* earlier batch has its final result (all its attempts are over and, if it succeeded,
\* its HTML is written).
C1_BatchSequencing ==
    \A i \in DOMAIN tpc : \A j \in DOMAIN tpc :
        (calls[i] > 0 /\ BatchOf(j) < BatchOf(i)) => tpc[j] = "done"

\* a route of the second batch is rendering, with batches of more than one route
C1_Witness ==
    /\ config.parallel > 1
    /\ \E i \in DOMAIN tpc : BatchOf(i) = 1 /\ i \in pages

\* C2: the renders in flight never number more than config.parallel, and the batches
\* are the consecutive slices of the route list of size parallel (the last one may be
\* smaller): while batch b runs, exactly the routes up to the end of slice b have been
\* started and exactly the routes before slice b are in the results list.
C2_ParallelBound ==
    /\ Cardinality(InRender) <= config.parallel
    /\ Cardinality(pages) <= config.parallel
    /\ pc = "renderRoutes" =>
         /\ batch * config.parallel < Len(routes)
         /\ {i \in DOMAIN tpc : tpc[i] # "idle"}
              = 1..Min((batch + 1) * config.parallel, Len(routes))
         /\ Len(results) = batch * config.parallel

\* a full batch of more than one route has all its pages open, and more routes wait
C2_Witness ==
    /\ config.parallel > 1
    /\ Cardinality(pages) = config.parallel
    /\ Len(routes) > config.parallel

\* C3, as claimed: render is invoked at most retries times per route, and exactly
\* retries times for a route whose attempts all failed.
C3_Original ==
    \A i \in DOMAIN tpc :
        /\ calls[i] <= config.retries
        /\ (tpc[i] = "done" /\ succAt[i] = 0) => calls[i] = config.retries

\* C3, amended: render is invoked at most max(1, retries) times per route; a route
\* whose attempts all failed was rendered exactly max(1, retries) times and its final
\* result is a failure.
C3_RetryBound ==
    \A i \in DOMAIN tpc :
        /\ calls[i] <= Max(1, config.retries)
        /\ (tpc[i] = "done" /\ succAt[i] = 0) =>
              /\ calls[i] = Max(1, config.retries)
              /\ ~result[i].success
              /\ i <= Len(results) => ~results[i].success

\* a route failed on each of two attempts and its failure is in the results list
C3_Witness ==
    \E i \in DOMAIN tpc :
        /\ config.retries = 2
        /\ calls[i] = 2
        /\ succAt[i] = 0
        /\ i <= Len(results)

\* C4: a route whose attempt K is its first success is rendered exactly K times (no
\* render of it starts after the success), K is at most max(1, retries), and the result
\* kept for it is that success.
C4_StopAtFirstSuccess ==
    \A i \in DOMAIN tpc :
        succAt[i] > 0 =>
            /\ calls[i] = succAt[i]
            /\ succAt[i] <= Max(1, config.retries)
            /\ result[i].success
            /\ tpc[i] \in {"finally", "writeHtml", "done", "rejected"}
            /\ i <= Len(results) => results[i].success

\* a route succeeded on its second attempt and its success is in the results list
C4_Witness ==
    \E i \in DOMAIN tpc : succAt[i] = 2 /\ i <= Len(results) /\ results[i].success

\* C5: whenever serverInstance.close() is called in a run that launched the browser,
\* the browser is already closed, on the normal path and when rendering or SEO-file
\* generation threw (browser.close() itself not having failed).
C5_BrowserClosedBeforeServer ==
    [][(server = "listening" /\ server' = "closed" /\ browser # "none"
            /\ exc # "browser.close")
         => browser = "closed"]_vars

\* the run ended on an exception of rendering, with browser and server closed
C5_Witness ==
    /\ pc = "done"
    /\ exc = "writeHtml"
    /\ server = "closed"
    /\ browser = "closed"

\* C6, as claimed: once generate() has settled, the server is not listening and the
\* browser is not open.
C6_Original ==
    pc = "done" => (server # "listening" /\ browser # "open")

\* C6, amended: once generate() has settled, the server is not listening, and the
\* browser is not open unless browser.close() itself rejected.
C6_ResourcesReleased ==
    pc = "done" =>
        /\ server # "listening"
        /\ browser = "open" => exc = "browser.close"

\* the run ended because the browser could not be launched, and the server is closed
C6_Witness ==
    /\ pc = "done"
    /\ exc = "launch"
    /\ server = "closed"
    /\ browser = "none"

\* renderRoutes has returned or thrown
RenderRoutesFinished ==
    /\ browser # "none"
    /\ pc \in {"copyAssets", "generateSitemap", "generateRobotsTxt", "renderer.close",
               "server.close", "done"}

\* C7: a page is open only while its render attempt has not delivered its result, and
\* once renderRoutes has finished no page of the run is open.
C7_PagesClosed ==
    /\ \A i \in pages : tpc[i] \in {"page", "onError", "finally"}
    /\ RenderRoutesFinished => pages = {}

RECURSIVE Flatten(_)
Flatten(gens) ==
    IF gens = <<>> THEN <<>> ELSE Head(gens).value \o Flatten(Tail(gens))

Sourced(cfg) == cfg.routes.value \o Flatten(cfg.dynamicRoutes)

\* the position at which a route first occurs in a list
FirstSeen(list, r) ==
    CHOOSE k \in 1..Len(list) : list[k] = r /\ \A m \in 1..(k - 1) : list[m] # r

\* C9: the resolved route list holds every route of the sources exactly once, ordered
\* by first occurrence (routes source first, then the generators in declaration order).
C9_ResolveDedup ==
    pc = "cleanOutput" =>
        LET src == Sourced(config)
        IN  /\ Range(routes) = Range(src)
            /\ \A a \in 1..Len(routes) : \A b \in 1..Len(routes) :
                   a < b => /\ routes[a] # routes[b]
                            /\ FirstSeen(src, routes[a]) < FirstSeen(src, routes[b])

\* two generators, duplicates among the sources, and a result that is not sorted
C9_Witness ==
    /\ pc = "cleanOutput"
    /\ Len(config.dynamicRoutes) = 2
    /\ Len(routes) >= 2
    /\ Len(Sourced(config)) > Len(routes)
    /\ routes[1] > routes[2]

\* the routes function or some dynamic route generator of the configuration throws
SourceThrows ==
    \/ config.routes.kind = "function" /\ config.routes.throws
    \/ \E k \in DOMAIN config.dynamicRoutes : config.dynamicRoutes[k].throws

\* C10: when the routes function or a dynamic route generator throws, generate() throws
\* that failure, and the server is never started and the browser never launched.
C10_ResolveFailureAborts ==
    SourceThrows =>
        /\ server = "none"
        /\ browser = "none"
        /\ pc \in {"resolveRoutes", "resolveRoutes.dynamic", "done"}
        /\ pc = "done" => (outcome = "threw" /\ exc \in {"routes", "generator"})

\* a generator threw after the routes function had returned its routes
C10_Witness ==
    /\ pc = "done"
    /\ exc = "generator"
    /\ config.routes.kind = "function"
    /\ Len(routeSet) > 0

\* the callbacks of a configuration in the order resolveRoutes is to invoke them:
\* the routes function (0) if routes is a function, then generator 1, 2, ...
ExpectedCalls(cfg) ==
    (IF cfg.routes.kind = "function" THEN <<0>> ELSE <<>>) \o Iota(Len(cfg.dynamicRoutes))

\* whether callback c of the configuration throws
CallbackThrows(cfg, c) ==
    IF c = 0 THEN cfg.routes.throws ELSE cfg.dynamicRoutes[c].throws

\* C11: the callbacks invoked so far are an initial part of: the routes function (when
\* routes is a function), then every generator in declaration order, each exactly once;
\* one is invoked only after every earlier one has returned, and when resolution
\* returns all of them have been invoked.
C11_InvocationOrder ==
    /\ Len(invoked) <= Len(ExpectedCalls(config))
    /\ \A k \in 1..Len(invoked) : invoked[k] = ExpectedCalls(config)[k]
    /\ \A k \in 1..(Len(invoked) - 1) : ~CallbackThrows(config, invoked[k])
    /\ pc = "cleanOutput" => invoked = ExpectedCalls(config)

\* resolution returned after the routes function and two generators were invoked
C11_Witness ==
    /\ pc = "cleanOutput"
    /\ invoked = <<0, 1, 2>>

\* renderRoutes has returned its list to generate()
RenderRoutesReturned ==
    \/ pc \in {"copyAssets", "generateSitemap", "generateRobotsTxt"}
    \/ outcome = "returned"

\* C12: the list of renderRoutes holds at most one RenderResult per resolved route, its
\* k-th entry is the final result of the task of the k-th resolved route, and once
\* renderRoutes has returned it holds exactly one entry per route, whatever the order in
\* which the tasks of a batch returned.
C12_ResultsInRouteOrder ==
    /\ Len(results) <= Len(routes)
    /\ \A k \in 1..Len(results) :
          /\ results[k].route = routes[k]
          /\ results[k].success = result[k].success
          /\ results[k].error = result[k].error
          /\ results[k].html = result[k].html
    /\ RenderRoutesReturned => Len(results) = Len(routes)

\* renderRoutes returned the results of a batch in which a later route's task returned
\* before an earlier route's, the one a failure and the other a success
C12_Witness ==
    /\ RenderRoutesReturned
    /\ overtaken
    /\ Len(results) > 1
    /\ ~results[1].success
    /\ results[2].success

\* C13: the RenderStats generate() returns has total = number of resolved routes = number
\* of results, success = number of results flagged successful, success + failed = total.
C13_StatsConsistent ==
    outcome = "returned" =>
        /\ stats.total = Len(routes)
        /\ stats.total = Len(results)
        /\ stats.success = Cardinality({k \in 1..Len(results) : results[k].success})
        /\ stats.success + stats.failed = stats.total

\* generate() returned stats that count a successful and a failed route
C13_Witness ==
    /\ outcome = "returned"
    /\ stats.success > 0
    /\ stats.failed > 0

\* C14: the HTML of a route is written at most once, only after an attempt of the route
\* succeeded, and to the route's output path; a route whose final result is a success
\* has it written exactly once before its task returns, hence before any route of a
\* later batch starts; a route whose final result is a failure, or that has only failed
\* so far, has no file written.
C14_WrittenOnceOnSuccess ==
    \A i \in DOMAIN tpc :
        /\ writes[i] <= 1
        /\ writes[i] = 1 =>
              /\ succAt[i] > 0
              /\ result[i].success
              /\ result[i].outputPath \in DOMAIN files
        /\ succAt[i] = 0 => writes[i] = 0
        /\ tpc[i] = "done" => writes[i] = (IF result[i].success THEN 1 ELSE 0)
        /\ \A j \in DOMAIN tpc :
              (calls[j] > 0 /\ BatchOf(i) < BatchOf(j)) =>
                  writes[i] = (IF result[i].success THEN 1 ELSE 0)

\* a later batch has started after a route that succeeded on its second attempt was
\* written once and a route that failed was not written
C14_Witness ==
    \E i \in DOMAIN tpc : \E j \in DOMAIN tpc : \E k \in DOMAIN tpc :
        /\ succAt[i] = 2 /\ writes[i] = 1
        /\ tpc[j] = "done" /\ ~result[j].success /\ writes[j] = 0
        /\ calls[k] > 0 /\ BatchOf(i) < BatchOf(k) /\ BatchOf(j) < BatchOf(k)

\* the HTML of route i was rendered but writing it failed
WriteFailed(i) == tpc[i] = "rejected" /\ result[i].success

\* C15: when nothing but the writing of HTML files failed, generate() returns its
\* RenderStats and the routes whose file could not be written are counted as failed.
C15_WriteFailureCounted ==
    (pc = "done" /\ exc \in {"none", "writeHtml"} /\ \E i \in DOMAIN tpc : WriteFailed(i)) =>
        /\ outcome = "returned"
        /\ stats.failed >= Cardinality({i \in DOMAIN tpc : WriteFailed(i)})

\* a RenderResult of route i was returned by render
HasResult(i) == result[i].route # 0 /\ ~result[i].thrown

\* C16: the html of a successful RenderResult, and the file written for it, is what the
\* afterRender hook returned.
C16_AfterRenderReplacesHtml ==
    \A i \in DOMAIN tpc :
        (HasResult(i) /\ result[i].success) =>
            /\ result[i].html = afterRender(config, RouteName(routes[i]), PageHtml)
            /\ writes[i] = 1 =>
                  files[result[i].outputPath] = afterRender(config, RouteName(routes[i]), PageHtml)

\* C17: with fileNaming 'flat' and no customNaming in the user's configuration, the
\* output path of "/" is index.html and that of any other route its segments joined
\* with "-" plus ".html".
C17_FlatNaming ==
    (config.fileNaming = "flat" /\ config.customNaming = "default") =>
        \A i \in DOMAIN tpc :
            HasResult(i) =>
                result[i].outputPath =
                    IF RouteName(routes[i]) = <<"/">> THEN <<"index", ".html">>
                    ELSE DashForSlash(StripLeadingSlash(RouteName(routes[i]))) \o <<".html">>

\* C18: when the user sets customNaming, the output path of every RenderResult, of a
\* successful and of a failed attempt alike, is customNaming(route), whatever fileNaming
\* is.
C18_CustomNamingWins ==
    config.customNaming = "user" =>
        /\ \A i \in DOMAIN tpc :
              HasResult(i) => result[i].outputPath = UserCustomNaming(RouteName(routes[i]))
        /\ \A k \in 1..Len(results) :
              results[k].outputPath = UserCustomNaming(RouteName(routes[k]))

\* under fileNaming 'flat' and the user's customNaming, a route other than "/" was
\* rendered on its second attempt, after a failed first one, and written
C18_Witness ==
    /\ config.fileNaming = "flat"
    /\ config.customNaming = "user"
    /\ \E i \in DOMAIN tpc :
          /\ routes[i] # 1
          /\ succAt[i] = 2
          /\ writes[i] = 1
          /\ UserCustomNaming(RouteName(routes[i])) \in DOMAIN files

\* C19: when generate() returns after every resolved route rendered on its first
\* attempt under the default naming, its stats are total = number of routes = success,
\* failed = 0, and the output directory holds exactly one file per route, at the
\* route's nested path ("/" at index.html, "/about" at about/index.html).
C19_AllRenderedNested ==
    (outcome = "returned" /\ \A i \in DOMAIN tpc : succAt[i] = 1) =>
        /\ stats = [total |-> Len(routes), success |-> Len(routes), failed |-> 0]
        /\ DOMAIN files = {NestedPath(RouteName(routes[k])) : k \in 1..Len(routes)}
        /\ Cardinality(DOMAIN files) = Len(routes)
        /\ 1 \in Range(routes) => <<"index", ".html">> \in DOMAIN files
        /\ 2 \in Range(routes) => <<"about", "/", "index", ".html">> \in DOMAIN files

\* generate() returned after "/", "/about" and a third route rendered at once
C19_Witness ==
    /\ outcome = "returned"
    /\ Len(routes) > 2
    /\ \A i \in DOMAIN tpc : succAt[i] = 1

\* what C20 says of every route but for the RenderResult of a failed attempt: onError is
\* invoked at most once by a render call, not before the try block threw, never by a
\* call that succeeds, and exactly once, with the route and the error thrown, by a call
\* whose try block threw
OnErrorOnce(i) ==
    /\ onErrorCalls[i] <= 1
    /\ tpc[i] \in {"newPage", "page", "onError"} => onErrorCalls[i] = 0
    /\ (tpc[i] \in {"finally", "writeHtml", "done"} /\ result[i].success) => onErrorCalls[i] = 0
    /\ (tpc[i] = "finally" /\ ~result[i].success) =>
          /\ onErrorCalls[i] = 1
          /\ onErrorArg[i].route = routes[i]
          /\ onErrorArg[i].error \in RenderErrors

\* C20 as stated: every attempt whose try block threw yields a failed RenderResult with
\* empty html that carries the error.
C20_Original ==
    \A i \in DOMAIN tpc :
        /\ OnErrorOnce(i)
        /\ (tpc[i] = "finally" /\ ~result[i].success) =>
              /\ HasResult(i)
              /\ result[i].html = <<>>
              /\ result[i].error = onErrorArg[i].error

\* C20: as C20_Original, but the attempt yields the failed RenderResult only when
\* onError returns; when onError throws, render throws and yields no RenderResult.
C20_OnErrorOncePerFailure ==
    \A i \in DOMAIN tpc :
        /\ OnErrorOnce(i)
        /\ (tpc[i] = "finally" /\ ~result[i].success) =>
              IF result[i].thrown
              THEN result[i].error = "onError"
              ELSE /\ HasResult(i)
                   /\ result[i].html = <<>>
                   /\ result[i].error = onErrorArg[i].error

\* the second attempt of a route failed in a hook, onError was invoked for it and returned
C20_Witness ==
    \E i \in DOMAIN tpc :
        /\ tpc[i] = "finally"
        /\ calls[i] = 2
        /\ HasResult(i)
        /\ ~result[i].success
        /\ result[i].error = "hook"
        /\ onErrorCalls[i] = 1

\* the try block of the current render call of route i threw in beforeRender
BeforeRenderFailed(i) ==
    /\ tpc[i] \in {"onError", "finally", "done"}
    /\ ~result[i].success
    /\ steps[i] # <<>>
    /\ steps[i][Len(steps[i])] = "beforeRender"

\* what C21 says but for the RenderResult of the attempt: beforeRender is the first step
\* of every attempt, an attempt whose beforeRender fails neither navigates nor extracts
\* content, and a route whose last attempt failed so has had all its attempts
BeforeRenderAborts(i) ==
    /\ tpc[i] \in {"onError", "finally"} => (steps[i] # <<>> /\ steps[i][1] = "beforeRender")
    /\ BeforeRenderFailed(i) =>
          /\ "goto" \notin Range(steps[i])
          /\ "content" \notin Range(steps[i])
          /\ tpc[i] = "done" => attempts[i] = Max(1, config.retries)

\* C21 as stated: an attempt whose beforeRender fails ends as a failed RenderResult.
C21_Original ==
    \A i \in DOMAIN tpc :
        /\ BeforeRenderAborts(i)
        /\ (BeforeRenderFailed(i) /\ tpc[i] = "finally") =>
              (HasResult(i) /\ result[i].error = "hook")

\* C21: as C21_Original, but the attempt ends as a failed RenderResult only when onError
\* returns; when onError throws, render throws and the route is not retried.
C21_BeforeRenderFailure ==
    \A i \in DOMAIN tpc :
        /\ BeforeRenderAborts(i)
        /\ (BeforeRenderFailed(i) /\ tpc[i] = "finally") =>
              IF result[i].thrown
              THEN result[i].error = "onError"
              ELSE HasResult(i) /\ result[i].error = "hook"

\* the second attempt of a route failed in beforeRender, as the first had, and ended as
\* a failed RenderResult
C21_Witness ==
    \E i \in DOMAIN tpc :
        /\ calls[i] = 2
        /\ tpc[i] = "finally"
        /\ BeforeRenderFailed(i)
        /\ HasResult(i)

\* the mapped path of the request does not exist, and the request has been answered
\* by a server whose rootDir holds index.html
FallbackCase ==
    /\ response.status # 0
    /\ ~Exists(rootDir, request)
    /\ <<"index.html">> \in rootDir

\* C22: a request whose mapped path does not exist is answered by its last segment
\* alone: without a "." in it, 200 with the content of the root index.html (whatever
\* the earlier segments hold), and with one, 404
C22_FallbackByLastSegment ==
    FallbackCase =>
        IF request[Len(request)] \in DottedSegments
        THEN response.status = 404
        ELSE response = [status |-> 200, body |-> FileContent(<<"index.html">>)]

Phases ==
    <<"resolveRoutes", "resolveRoutes.dynamic", "cleanOutput", "server.start", "renderer.initialize", "renderRoutes",
      "copyAssets", "generateSitemap", "generateRobotsTxt", "renderer.close",
      "server.close", "done">>

\* the place of a phase in that order
PhaseRank(phase) == CHOOSE k \in 1..Len(Phases) : Phases[k] = phase

\* the phases that follow the rendering inside the inner try block
AfterRendering == {"copyAssets", "generateSitemap", "generateRobotsTxt"}

\* every route has its final result: its task returned and renderRoutes collected it
AllRoutesFinal ==
    /\ Len(results) = Len(routes)
    /\ \A i \in DOMAIN tpc : tpc[i] = "done"

\* renderRoutes with no route: no batch, so the rendering phase takes no step
NothingToRender == routes = <<>> /\ pc = "renderer.initialize" /\ pc' = "copyAssets"

\* C30: generate() never goes back to an earlier phase, skips no phase unless an
\* exception is pending (or there is no route to render), stays in the asset copy, the
\* sitemap and the robots phase for one step each, and is in them only when every route
\* has its final result, the browser is open and the server listens
C30_PhaseOrder ==
    [][/\ PhaseRank(pc') >= PhaseRank(pc)
       /\ (exc' = "none" /\ outcome' # "threw") =>
            PhaseRank(pc') <= PhaseRank(pc) + 1 \/ NothingToRender
       /\ pc \in AfterRendering => PhaseRank(pc') > PhaseRank(pc)
       /\ pc' \in AfterRendering =>
            AllRoutesFinal' /\ browser' = "open" /\ server' = "listening"]_vars

\* a run of MaxRoutes routes in more than one batch went through every phase and returned
C30_Witness ==
    /\ outcome = "returned"
    /\ Len(routes) = MaxRoutes
    /\ batch > 1
    /\ assets # "none"
    /\ browser = "closed"
    /\ server = "closed"

\* a glob matches a string: "*" stands for any substring (the empty one too), every
\* other character for itself, and the whole string has to be matched
RECURSIVE GlobMatches(_, _)
GlobMatches(glob, str) ==
    IF glob = <<>> THEN str = <<>>
    ELSE IF Head(glob) = "*"
         THEN \E k \in 0..Len(str) : GlobMatches(Tail(glob), SubSeq(str, k + 1, Len(str)))
         ELSE str # <<>> /\ Head(glob) = Head(str) /\ GlobMatches(Tail(glob), Tail(str))

\* the result is one the sitemap has to list: successful, its route matched by no
\* exclude pattern
Listed(r) ==
    /\ r.success
    /\ \A k \in 1..Len(config.sitemap.exclude) :
            ~GlobMatches(config.sitemap.exclude[k], RouteName(r.route))

\* the url element of the route of a result, under the configured hostname
UrlLine(r) == <<"<url><loc>", config.sitemap.hostname>> \o RouteName(r.route) \o <<"</loc></url>">>

\* the url elements of a sitemap file, in the order of the file
UrlLines(content) == SubSeq(content, 3, Len(content) - 1)

\* C24: a sitemap exists only when sitemap.hostname is configured, and then its url
\* elements are those of the successful results whose route matches no exclude
\* pattern, one for each, in the order of the results
C24_SitemapListsSuccessful ==
    sitemap # NoFile =>
        /\ config.sitemap.set
        /\ config.sitemap.hostname # ""
        /\ Len(sitemap) >= 3
        /\ UrlLines(sitemap) =
            [k \in 1..Len(SelectSeq(results, Listed)) |-> UrlLine(SelectSeq(results, Listed)[k])]

\* a sitemap was written that leaves out a failed route and an excluded route, and
\* lists another
C24_Witness ==
    /\ sitemap # NoFile
    /\ Len(UrlLines(sitemap)) > 0
    /\ \E k \in 1..Len(results) : ~results[k].success
    /\ \E k \in 1..Len(results) :
            /\ results[k].success
            /\ \E j \in 1..Len(config.sitemap.exclude) :
                    GlobMatches(config.sitemap.exclude[j], RouteName(results[k].route))

\* every value of an allow or disallow: none when left out, the string, or the strings
\* of the array
Values(value) ==
    IF value.kind = "undefined" THEN <<>>
    ELSE IF value.kind = "single" THEN <<value.single>>
    ELSE value.list

\* the block of one rule: the User-agent line, an Allow line for every value of allow,
\* a Disallow line for every value of disallow
Block(rule) ==
    <<<<"User-agent:", " ", rule.userAgent>>>>
        \o [k \in 1..Len(Values(rule.allow)) |-> <<"Allow:", " ", Values(rule.allow)[k]>>]
        \o [k \in 1..Len(Values(rule.disallow)) |->
                <<"Disallow:", " ", Values(rule.disallow)[k]>>]

\* the blocks of the rules in the order of the policy, an empty line after each
RECURSIVE Blocks(_)
Blocks(policy) ==
    IF policy = <<>> THEN <<>>
    ELSE Block(Head(policy)) \o <<<<>>>> \o Blocks(Tail(policy))

\* C25: robots.txt exists only when robots is configured, and then it holds the block
\* of every rule in the order of the policy, an empty line between them, and after them
\* one Sitemap line if and only if a sitemap hostname is configured (white space at the
\* end of the file does not count)
C25_RobotsBlocks ==
    robots # NoFile =>
        /\ config.robots.set
        /\ robots =
            Trim(Blocks(config.robots.policy)
                    \o (IF config.sitemap.set /\ config.sitemap.hostname # ""
                        THEN <<<<"Sitemap:", " ", config.sitemap.hostname, "/", "sitemap.xml">>>>
                        ELSE <<>>))

\* generate() has been called
GenerateCalled == pc # "idle"

\* C26: when the build is not skipped, generate() has been called only if the build
\* command exited with status 0; once the build exited with another status, generate()
\* is never called (no route generator invoked, no server started) and the process has
\* exited with a non-zero status
C26_BuildGatesGenerate ==
    /\ (~config.skipBuild /\ GenerateCalled) => cli.built /\ cli.code = 0
    /\ (cli.built /\ cli.code # 0) =>
            /\ ~GenerateCalled
            /\ invoked = <<>>
            /\ server = "none"
            /\ cli.pc = "exited"
            /\ cli.exit # 0

\* the build exited with a non-zero status and the process has exited
C26_Witness ==
    /\ ~config.skipBuild
    /\ cli.built
    /\ cli.code # 0
    /\ cli.pc = "exited"

\* C27: when the process has exited after generate() settled, its exit status is
\* non-zero if and only if generate() threw or the returned stats have failed > 0
C27_ExitStatus ==
    (cli.pc = "exited" /\ GenerateCalled) =>
        (cli.exit # 0 <=> (outcome = "threw" \/ stats.failed > 0))

\* generate() returned stats with a failed and a rendered route, and the process exited
\* with a non-zero status
C27_Witness ==
    /\ cli.pc = "exited"
    /\ outcome = "returned"
    /\ stats.failed > 0
    /\ stats.success > 0
    /\ cli.exit # 0

\* C28: cleanOutput never throws; called when the output directory does not exist it
\* leaves no directory and no file; and every further call in a row leaves what the
\* first call left
C28_CleanOutputIdempotent ==
    /\ \A k \in 1..Len(trace) : ~trace[k].threw
    /\ trace[1].outputDir = "absent" =>
            \A k \in 1..Len(trace) : trace[k].outputDir = "absent" /\ trace[k].files = EmptyDir
    /\ \A k \in 3..Len(trace) :
            trace[k].outputDir = trace[2].outputDir /\ trace[k].files = trace[2].files

\* cleanOutput was called twice on a directory that holds a file rm cannot remove and
\* one it can
C28_Witness ==
    /\ Len(trace) >= 3
    /\ trace[1].outputDir = "present"
    /\ DOMAIN trace[1].files \cap locked # {}
    /\ DOMAIN trace[1].files \ locked # {}

\* the last call made on the renderer
LastCall == trace[Len(trace)]

\* C29: a close() that finds no browser (no initialize() before it, or the browser
\* closed already) changes nothing and does not throw, and no launched browser is torn
\* down more than once
C29_CloseIdempotent ==
    [][/\ (Len(trace') > Len(trace) /\ LastCall'.op = "close" /\ browser # "open") =>
            ~LastCall'.threw /\ UNCHANGED <<browser, launched, teardowns, pages>>
       /\ \A id \in 1..launched' : teardowns'[id] <= 1]_vars

\* close() was called before any initialize(), and twice after one
C29_Witness ==
    /\ Len(trace) >= 4
    /\ trace[1].op = "close"
    /\ trace[2] = [op |-> "initialize", threw |-> FALSE]
    /\ trace[3] = [op |-> "close", threw |-> FALSE]
    /\ trace[4] = [op |-> "close", threw |-> FALSE]
    /\ teardowns = <<1>>

\* the places of the list that a step has appended
Appended == (Len(results) + 1)..Len(results')

\* C31: the results list changes only while renderRoutes awaits a batch whose routes
\* have all finished, and then by getting the results of exactly the routes of that
\* batch appended in route order, with no entry removed or replaced; so its length is
\* always that of the batches collected so far
C31_ResultsAppendOnly ==
    [][/\ results' # results =>
            /\ pc = "renderRoutes"
            /\ \A i \in Slice(Len(routes), batch, config.parallel) : tpc[i] = "done"
            /\ Len(results') > Len(results)
            /\ SubSeq(results', 1, Len(results)) = results
            /\ Appended = Slice(Len(routes), batch, config.parallel)
            /\ \A k \in Appended : results'[k].route = routes[k]
       /\ Len(results') = Min(batch' * config.parallel, Len(routes'))]_vars

\* the results of a first batch of several routes are in the list while a route of the
\* next batch is rendering
C31_Witness ==
    /\ pc = "renderRoutes"
    /\ config.parallel > 1
    /\ Len(results) = config.parallel
    /\ Len(results) < Len(routes)
    /\ \E i \in InRender : BatchOf(i) = 1

\* the order the claim gives the steps of the try block, with the steps a configuration
\* leaves out removed
StepOrder ==
    <<"beforeRender", "goto", "waitForSelector", "content", "postProcess", "injectMeta",
      "minify", "afterRender">>

Configured(step) ==
    CASE step = "waitForSelector" -> config.selector # "undefined"
      [] step = "injectMeta" -> config.injectMeta # <<>>
      [] step = "minify" -> config.minifyHtml
      [] OTHER -> TRUE

\* the page's content with the meta tags after '<head>', and when minifyHtml is set
\* with no whitespace run longer than one blank, none between two tags and none at
\* either end
PostProcessed(html) ==
    /\ \E at \in 1..Len(PageHtml) :
          /\ PageHtml[at] = "<head>"
          /\ LET injected == IF config.injectMeta = <<>> THEN PageHtml
                              ELSE InjectMeta(PageHtml, config.injectMeta)
             IN  IF config.minifyHtml
                 THEN /\ html = Minify(injected)
                      /\ \A k \in 1..Len(html) :
                            html[k] \in Whitespace =>
                               /\ html[k] = " "
                               /\ 1 < k /\ k < Len(html)
                               /\ html[k + 1] \notin Whitespace
                               /\ ~(html[k - 1] \in Tags /\ html[k + 1] \in Tags)
                 ELSE html = injected
    /\ \A k \in 1..Len(config.injectMeta) :
          \E at \in 1..Len(html) : html[at] = config.injectMeta[k]

\* C32: once the try block of a render call has returned, its page is still open (it was
\* opened before and is closed only afterwards), the steps it ran are beforeRender,
\* navigation, selector wait (only with a selector), content, meta-tag injection,
\* minification (only with minifyHtml) and afterRender in this order, and afterRender
\* received the post-processed html; no step has run before the page is opened
C32_StepOrder ==
    \A i \in DOMAIN tpc :
        /\ (tpc[i] = "finally" /\ result[i].success) =>
              /\ i \in pages
              /\ steps[i] = SelectSeq(StepOrder, Configured)
              /\ afterRenderArg[i] # NotCalled
              /\ PostProcessed(afterRenderArg[i])
              /\ result[i].html = afterRenderArg[i]
        /\ tpc[i] = "newPage" => (steps[i] = <<>> /\ afterRenderArg[i] = NotCalled)
        /\ afterRenderArg[i] # NotCalled =>
              (steps[i] # <<>> /\ steps[i][Len(steps[i])] = "afterRender")

C32_Witness ==
    /\ config.selector # "undefined"
    /\ config.minifyHtml
    /\ Len(config.injectMeta) > 1
    /\ \E i \in DOMAIN tpc :
          /\ tpc[i] = "finally"
          /\ result[i].success
          /\ afterRenderArg[i] # PageHtml

\* C33: whenever renderer.close() is called, every render call that was started has
\* returned and its page is closed, also when a route task of the batch rejected while
\* its sibling tasks were rendering.
C33_NoCloseInFlight ==
    [][(pc = "renderer.close" /\ pc' # pc) => (InRender = {} /\ pages = {})]_vars

\* the least number of slices of the given size that cover n routes
Ceil(n, size) == CHOOSE b \in 0..n : (b - 1) * size < n /\ n <= b * size

\* renderRoutes is over: generate() is past it, having launched the browser
RenderRoutesOver ==
    /\ browser # "none"
    /\ pc \notin {"renderer.initialize", "renderRoutes"}

\* a route task of the batch renderRoutes was awaiting has rejected
TaskRejected ==
    \E i \in Slice(Len(routes), batch, config.parallel) : tpc[i] = "rejected"

\* C34, as claimed: renderRoutes ends, and when it is over it has run exactly
\* ceil(N / parallel) batches and returned the result of every route.
C34_Original ==
    RenderRoutesOver =>
        /\ batch = Ceil(Len(routes), config.parallel)
        /\ Len(results) = Len(routes)

\* C34, amended: renderRoutes ends; it returns after exactly ceil(N / parallel) batches
\* with one result per route, every route task having returned, or it throws because a
\* route task of the batch it awaits rejected, with fewer than ceil(N / parallel)
\* batches joined.
C34_RenderRoutesTerminates ==
    /\ (pc = "renderRoutes") ~> RenderRoutesOver
    /\ [](RenderRoutesOver =>
            \/ /\ \A i \in DOMAIN tpc : tpc[i] = "done"
               /\ batch = Ceil(Len(routes), config.parallel)
               /\ Len(results) = Len(routes)
            \/ /\ TaskRejected
               /\ batch < Ceil(Len(routes), config.parallel)
               /\ Len(results) = batch * config.parallel)

\* renderRoutes returned after two batches, the second one not full
C34_Witness ==
    /\ pc = "copyAssets"
    /\ config.parallel = 2
    /\ Len(routes) = 3
    /\ batch = 2
    /\ \E i \in DOMAIN tpc : ~result[i].success

\* the file a route is written to
OutputFile(i) == join(getOutputPath(config, RouteName(routes[i])))

\* C35: the resolved routes are distinct strings, distinct routes are written to
\* distinct files, and once every route has been rendered and written the output
\* directory holds one file per route.
C35_DistinctOutputFiles ==
    \A i \in DOMAIN routes : \A j \in DOMAIN routes :
        i # j =>
            /\ RouteName(routes[i]) # RouteName(routes[j])
            /\ OutputFile(i) # OutputFile(j)
            /\ (\A k \in DOMAIN tpc : tpc[k] = "done" /\ result[k].success) =>
                  Cardinality(DOMAIN files) = Len(routes)

\* what a run finds in and leaves in the output directory
Output == <<files, outputDir, assets, sitemap, robots>>

\* C36: no step of route resolution touches the output directory, the step that aborts
\* generate() on a failed routes callback or generator leaves it as the run found it,
\* and nothing touches it afterwards; the directory is changed only once resolveRoutes
\* has returned the routes.
C36_CleanAfterResolve ==
    [][/\ pc \in {"resolveRoutes", "resolveRoutes.dynamic"} => UNCHANGED Output
       /\ exc' \in {"routes", "generator"} =>
             /\ UNCHANGED Output
             /\ files' = StaleOutput
             /\ outputDir' = "present"
       /\ Output' # Output =>
             /\ routes = routeSet
             /\ genIdx = Len(config.dynamicRoutes)
             /\ ~SourceThrows]_vars

\* the routes callback failed: generate() has thrown and the earlier run's file is there
C36_Witness ==
    /\ pc = "done"
    /\ outcome = "threw"
    /\ exc = "routes"
    /\ invoked = <<0>>
    /\ files = StaleOutput
    /\ outputDir = "present"

====
